---- MODULE Spec2Model ----
(***************************************************************************)
(* Model of the comparative-judge job orchestrator (src/src/job_runner.py) *)
(* as a state machine over one asyncio event loop: every action is one     *)
(* uninterrupted run of code between two suspension points (await).        *)
(*                                                                         *)
(* Python values are represented as follows.                               *)
(*   dict        a function whose DOMAIN is the key set, or, where the     *)
(*               insertion order is observable, a sequence of entries      *)
(*   None        the empty sequence <<>> (a present value x is <<x>>)      *)
(*   float a/b   the reduced fraction [num, den] (scores are integers, so  *)
(*               sums are exact and the quotient is correctly rounded)     *)
(*   str         a sequence of tokens where the code inspects the text     *)
(***************************************************************************)
EXTENDS Integers, Sequences, FiniteSets, TLC

VARIABLES
    jobs,           \* JobRunner.jobs: job_id -> ComparativeJudgeJob
    running_tasks,  \* JobRunner.running_tasks: job_id -> index into tasks
    tasks,          \* the run_job coroutines created so far, in creation order
    disk,           \* results_dir/comparative_judge: job_id -> file name -> content
    nextId,         \* the clock reading the next create_job derives its id from
    ret,            \* what the step just taken returned to its caller
    limits,         \* the scenario explored: how much the clients ask for
    lb_in,          \* leaderboard harness: the all_results argument
    lb_out,         \* leaderboard harness: <<>> or <<the returned list>>
    ev_in,          \* CodeExecutor: the (question, response) pair and what the
                    \* operating system does during its evaluations
    ev_fs,          \* CodeExecutor: the directories under the temp root
    ev_out,         \* CodeExecutor: what each evaluate call so far returned
    fn_in,          \* a single call of a function: its name and arguments
    fn_out,         \* <<>> or <<what that call returned>>
    cancel_event,   \* AsyncBenchmarkRunner.cancel_event: set or not
    current_job,    \* the job manager's current job: <<>> or <<[status]>>
    runner_thread,  \* AsyncBenchmarkRunner.runner_thread: where it is (pc) and
                    \* the exception its except clause caught (exc)
    units           \* the calls of tracked_generate and tracked_evaluate of
                    \* the run: kind, question, pc and the exception raised

vars == <<jobs, running_tasks, tasks, disk, nextId, ret, limits, lb_in, lb_out,
          ev_in, ev_fs, ev_out, fn_in, fn_out,
          cancel_event, current_job, runner_thread, units>>

benchvars == <<cancel_event, current_job, runner_thread, units>>

(***************************************************************************)
(* Bounds.                                                                 *)
(***************************************************************************)
MaxQuestions == 2
MaxGate == 1
MaxLbQuestions == 2

\* The scenarios: the number of job ids, of run_job coroutines started (in
\* all and per job id), the question lists passed to create_job, what a
\* file write may do, whether the process is restarted on the same results
\* directory, and by how much datetime.now() has moved on when the next
\* create_job reads it (0: the same reading again).
QuestionPool == <<"q1", "q2", "q1">>
QuestionLists == {SubSeq(QuestionPool, 1, n) : n \in 0..MaxQuestions}
WriteOutcomes == {"ok", "open_fails", "dump_fails"}

Scenarios ==
    { [jobs |-> 1, tasks |-> 1, per_job |-> 1, lists |-> QuestionLists,
       writes |-> WriteOutcomes, restart |-> TRUE, ticks |-> {1}],
      [jobs |-> 1, tasks |-> 2, per_job |-> 2, lists |-> {<<>>, <<"q1">>},
       writes |-> WriteOutcomes, restart |-> FALSE, ticks |-> {1}],
      [jobs |-> 2, tasks |-> 2, per_job |-> 1, lists |-> {<<"q1">>},
       writes |-> {"ok", "dump_fails"}, restart |-> FALSE, ticks |-> {1}],
      [jobs |-> 2, tasks |-> 0, per_job |-> 0, lists |-> QuestionLists,
       writes |-> {"ok"}, restart |-> FALSE, ticks |-> {0, 1}] }

JobIds == 1..limits.jobs
ModelNames == {"a", "b"}
Scores == {0, 100}

EmptyMap == << >>
None == << >>
Some(x) == <<x>>

\* no benchmark has been started through the web wrapper
BenchIdle ==
    /\ cancel_event = FALSE
    /\ current_job = None
    /\ runner_thread = [pc |-> "none", exc |-> None]
    /\ units = <<>>

(***************************************************************************)
(* Arithmetic helpers for Python's float division of small integers.       *)
(***************************************************************************)
RECURSIVE GCD(_, _)
GCD(a, b) == IF b = 0 THEN a ELSE GCD(b, a % b)

ZeroDivisionError == [num |-> 0, den |-> 0]

\* n / d on a non-negative integer n and a count d
TrueDiv(n, d) ==
    IF d = 0 THEN ZeroDivisionError
    ELSE LET g == GCD(n, d) IN [num |-> n \div g, den |-> d \div g]

Zero == [num |-> 0, den |-> 1]

\* a < b on two quotients
FracLess(a, b) == a.num * b.den < b.num * a.den

RECURSIVE SumSeq(_)
SumSeq(s) == IF s = <<>> THEN 0 ELSE Head(s) + SumSeq(Tail(s))

(***************************************************************************)
(* JobRunner._calculate_leaderboard.                                       *)
(* all_results is a dict question_id -> (dict model_name -> result), both  *)
(* iterated in insertion order: a sequence of [qid, results] whose results *)
(* is a sequence of [model, score, passed].                                *)
(***************************************************************************)
IndexOfModel(model_scores, m) ==
    LET hits == {i \in 1..Len(model_scores) : model_scores[i].model_name = m}
    IN IF hits = {} THEN 0 ELSE CHOOSE i \in hits : TRUE

\* the body of the inner loop: one (model_name, result) item
AddResult(model_scores, r) ==
    LET i == IndexOfModel(model_scores, r.model)
        ms == IF i = 0
              THEN Append(model_scores,
                          [model_name |-> r.model, scores |-> <<>>, passed_count |-> 0])
              ELSE model_scores
        k == IF i = 0 THEN Len(ms) ELSE i
    IN [ms EXCEPT ![k].scores = Append(@, r.score),
                  ![k].passed_count = IF r.passed THEN @ + 1 ELSE @]

RECURSIVE AddQuestion(_, _)
AddQuestion(model_scores, results) ==
    IF results = <<>> THEN model_scores
    ELSE AddQuestion(AddResult(model_scores, Head(results)), Tail(results))

RECURSIVE AggregateScores(_, _)
AggregateScores(model_scores, all_results) ==
    IF all_results = <<>> THEN model_scores
    ELSE AggregateScores(AddQuestion(model_scores, Head(all_results).results),
                         Tail(all_results))

LeaderboardEntry(data) ==
    LET scores == data.scores
    IN [model_name      |-> data.model_name,
        average_score   |-> IF scores # <<>>
                            THEN TrueDiv(SumSeq(scores), Len(scores)) ELSE Zero,
        total_questions |-> Len(scores),
        passed_count    |-> data.passed_count,
        pass_rate       |-> IF scores # <<>>
                            THEN TrueDiv(data.passed_count, Len(scores)) ELSE Zero]

\* list.sort(key=average_score) without reverse=True
RECURSIVE InsertAscending(_, _)
InsertAscending(sorted, e) ==
    IF sorted = <<>> THEN <<e>>
    ELSE IF FracLess(e.average_score, Head(sorted).average_score)
         THEN <<e>> \o sorted
         ELSE <<Head(sorted)>> \o InsertAscending(Tail(sorted), e)

\* an ascending sort followed by list.reverse(): equal keys change places
RECURSIVE InsertDescendingReversed(_, _)
InsertDescendingReversed(sorted, e) ==
    IF sorted = <<>> THEN <<e>>
    ELSE IF FracLess(e.average_score, Head(sorted).average_score)
         THEN <<Head(sorted)>> \o InsertDescendingReversed(Tail(sorted), e)
         ELSE <<e>> \o sorted

\* list.sort(key=average_score, reverse=True): stable, so an entry goes
\* behind every entry already placed whose key is not smaller than its own
RECURSIVE InsertDescending(_, _)
InsertDescending(sorted, e) ==
    IF sorted = <<>> THEN <<e>>
    ELSE IF FracLess(Head(sorted).average_score, e.average_score)
         THEN <<e>> \o sorted
         ELSE <<Head(sorted)>> \o InsertDescending(Tail(sorted), e)

RECURSIVE SortDescending(_, _)
SortDescending(sorted, rest) ==
    IF rest = <<>> THEN sorted
    ELSE SortDescending(InsertDescending(sorted, Head(rest)), Tail(rest))

SortLeaderboard(leaderboard) == SortDescending(<<>>, leaderboard)

BuildEntries(model_scores) ==
    [i \in 1..Len(model_scores) |-> LeaderboardEntry(model_scores[i])]

_calculate_leaderboard(all_results) ==
    SortLeaderboard(BuildEntries(AggregateScores(<<>>, all_results)))


(***************************************************************************)
(* Jobs, files and the collaborators' answers.                             *)
(***************************************************************************)
\* run ids of every job; the results manager answers for them
RunIds == {"r1", "r2"}

\* ComparativeJudgeJob(...) as create_job builds it
NewJob(qs) ==
    [question_ids |-> qs,
     status       |-> "pending",
     progress     |-> [current |-> 0, total |-> Len(qs), current_question |-> "",
                       status |-> "pending", error |-> None],
     results_path |-> None]

\* ComparativeJudgeJob.to_dict: a snapshot of the fields, enums as their values
to_dict(job) ==
    [question_ids |-> job.question_ids,
     status       |-> job.status,
     progress     |-> job.progress,
     results_path |-> job.results_path]

\* with open(path, 'w') as f: json.dump(data, f): open may fail; it truncates,
\* and dump may stop part-way; an empty content <<>> stands for a file that
\* is not valid JSON

WriteFile(files, name, data, outcome) ==
    CASE outcome = "ok"         -> (name :> Some(data)) @@ files
      [] outcome = "open_fails" -> files
      [] outcome = "dump_fails" -> (name :> None) @@ files

\* the judge collaborator's answer for a question (a deterministic judge):
\* model_name -> {score, passed}, in the order the judge lists the models
JudgeResult(q) ==
    CASE q = "q1" -> << [model |-> "a", score |-> 100, passed |-> TRUE],
                        [model |-> "b", score |-> 50, passed |-> FALSE] >>
      [] q = "q2" -> << [model |-> "b", score |-> 50, passed |-> TRUE],
                        [model |-> "a", score |-> 0, passed |-> FALSE] >>
      [] OTHER    -> << [model |-> "c", score |-> 50, passed |-> TRUE] >>

\* the content of <question_id>.json (the timestamp is left out)
QuestionFile(q) == [question_id |-> q, results |-> JudgeResult(q)]

(***************************************************************************)
(* JobRunner._get_provider_from_model and the gate size (run_job).         *)
(* A model identifier is a sequence of tokens, "/" being the separator.    *)
(***************************************************************************)
JudgeModels == {<<"openai", "/", "gpt-4">>, <<"big-pickle">>}
GateSizes == (0 - 1)..MaxGate
ProviderMaps == {EmptyMap} \cup {("openai" :> n) : n \in GateSizes}

\* the part after the last separator
LastSegment(model) == model[Len(model)]

_get_provider_from_model(model) ==
    IF \E i \in 1..Len(model) : model[i] = "/"
    THEN IF Head(model) = "/" THEN "" ELSE Head(model)
    ELSE "unknown"

JudgeConcurrency(judge_model, max_concurrent, provider_concurrency) ==
    LET judge_provider == _get_provider_from_model(judge_model)
    IN IF provider_concurrency # EmptyMap /\ judge_provider \in DOMAIN provider_concurrency
       THEN provider_concurrency[judge_provider]
       ELSE max_concurrent


(***************************************************************************)
(* The run_job coroutine and its per-question children.                    *)
(*   state    "created" (not yet scheduled), "gather" (suspended in        *)
(*            asyncio.gather), "done"                                      *)
(*   cancel   task.cancel() was called and has not been delivered yet      *)
(*   gate     the size the semaphore was built with; value its free permits*)
(*   children one entry per question id: pc "wait" (before or in           *)
(*            semaphore.acquire), "eval" (suspended in the judge call,     *)
(*            holding a permit), "done"; res what gather collects          *)
(***************************************************************************)
NewTask(job_id) ==
    [job |-> job_id, state |-> "created", cancel |-> FALSE,
     gate |-> 0, value |-> 0, children |-> <<>>]

\* a coroutine that has ended: its frame, semaphore and children are gone
DoneTask(job_id) ==
    [job |-> job_id, state |-> "done", cancel |-> FALSE,
     gate |-> 0, value |-> 0, children |-> <<>>]

\* ret of a step of the event loop: how the coroutine it ran left off
\* ("suspended", "returned", "raised", "cancelled"), for which job when it
\* ended, and the exception the except clause of run_job caught (or None)
Stepped(j, out, caught) ==
    [op |-> "step", job |-> IF out = "suspended" THEN 0 ELSE j, out |-> out,
     val |-> caught]
Returned(op, j, out, val) == [op |-> op, job |-> j, out |-> out, val |-> val]

evvars == <<ev_in, ev_fs, ev_out>>
fnvars == <<fn_in, fn_out, benchvars>>
lbvars == <<limits, lb_in, lb_out, evvars, fnvars>>
jobvars == <<jobs, running_tasks, tasks, disk, nextId, ret, limits>>

\* the part of the state one run of a job works on: the job object, its
\* directory, the exception in flight (None or the message) and the one the
\* except clause of run_job has caught
World(j) ==
    [job    |-> jobs[j],
     exists |-> j \in DOMAIN disk,
     files  |-> IF j \in DOMAIN disk THEN disk[j] ELSE EmptyMap,
     exc    |-> None,
     caught |-> None]

StoreJobs(j, w) == [jobs EXCEPT ![j] = w.job]
StoreDisk(j, w) == IF w.exists THEN (j :> w.files) @@ disk ELSE disk

\* _save_job_metadata(job); o is what the file write does
_save_job_metadata(w, o) ==
    IF w.job.results_path = None THEN w
    ELSE [w EXCEPT !.files = WriteFile(@, "metadata.json", to_dict(w.job), o),
                   !.exc = IF o = "ok" THEN None ELSE Some("metadata.json")]

SetStatus(w, st) ==
    [w EXCEPT !.job.status = st, !.job.progress.status = st]

\* an except clause that records the error but leaves the status as it is
ExceptHandlerKeepsStatus(w, o) ==
    IF w.exc = None THEN w
    ELSE _save_job_metadata(
             [w EXCEPT !.job.progress.error = w.exc, !.caught = w.exc, !.exc = None], o)

\* the except clause of run_job: an exception of the save leaves the coroutine
ExceptHandler(w, o) ==
    IF w.exc = None THEN w
    ELSE _save_job_metadata(
             [SetStatus(w, "failed") EXCEPT !.job.progress.error = w.exc,
                                            !.caught = w.exc,
                                            !.exc = None], o)

\* run_job from the try to the creation of the semaphore
RunPrefix(w, j, mkdir_ok, o, judge_model, k) ==
    LET w1 == SetStatus(w, "running")
        w2 == [w1 EXCEPT !.exists = TRUE, !.job.results_path = Some(j)]
        w3 == _save_job_metadata(w2, o)
    IN IF ~mkdir_ok THEN [w1 EXCEPT !.exc = Some("mkdir")]
       ELSE IF w3.exc # None THEN w3
       ELSE IF judge_model = None THEN [w3 EXCEPT !.exc = Some("judge_model")]
       ELSE IF k < 0 THEN [w3 EXCEPT !.exc = Some("Semaphore")]
       ELSE w3

\* a result loop that pairs the i-th result with the i-th question id from
\* the end of the list
RECURSIVE PutResultsReversed(_, _, _, _)
PutResultsReversed(all_results, qs, children, i) ==
    IF i > Len(qs) THEN all_results
    ELSE LET q == qs[Len(qs) + 1 - i]
             hits == {n \in 1..Len(all_results) : all_results[n].qid = q}
             item == [qid |-> q, results |-> JudgeResult(q)]
             next == IF children[i].res # "ok" THEN all_results
                     ELSE IF hits = {} THEN Append(all_results, item)
                     ELSE [all_results EXCEPT ![CHOOSE n \in hits : TRUE] = item]
         IN PutResultsReversed(next, qs, children, i + 1)

\* all_results[question_id] = result for the i-th question onwards
RECURSIVE PutResults(_, _, _, _)
PutResults(all_results, qs, children, i) ==
    IF i > Len(qs) THEN all_results
    ELSE LET q == qs[i]
             hits == {n \in 1..Len(all_results) : all_results[n].qid = q}
             item == [qid |-> q, results |-> JudgeResult(q)]
             next == IF children[i].res # "ok" THEN all_results
                     ELSE IF hits = {} THEN Append(all_results, item)
                     ELSE [all_results EXCEPT ![CHOOSE n \in hits : TRUE] = item]
         IN PutResults(next, qs, children, i + 1)

AllResults(qs, children) == PutResults(<<>>, qs, children, 1)

\* run_job after gather: the result loop, the leaderboard, the completion
RunSuffix(w, children, o_lb, o_meta) ==
    LET qs == w.job.question_ids
        w1 == IF qs = <<>> THEN w
              ELSE [w EXCEPT !.job.progress.current = Len(qs),
                             !.job.progress.current_question = qs[Len(qs)]]
        leaderboard == _calculate_leaderboard(AllResults(qs, children))
        w2 == [w1 EXCEPT !.files = WriteFile(@, "leaderboard.json", leaderboard, o_lb)]
        w3 == [SetStatus(w2, "completed") EXCEPT !.job.progress.current = Len(qs)]
    IN IF o_lb # "ok" THEN [w2 EXCEPT !.exc = Some("leaderboard.json")]
       ELSE _save_job_metadata(w3, o_meta)


(***************************************************************************)
(* The calls a client makes on the JobRunner.                              *)
(***************************************************************************)
\* create_job(run_ids, question_ids); the id is the reading of the clock,
\* nextId, and self.jobs[job_id] = job replaces what the id held
create_job(qs) ==
    /\ nextId <= limits.jobs
    /\ qs \in limits.lists
    /\ jobs' = (nextId :> NewJob(qs)) @@ jobs
    /\ \E tick \in limits.ticks : nextId' = nextId + tick
    /\ ret' = Returned("create", nextId, "job_id", None)
    /\ UNCHANGED <<running_tasks, tasks, disk, lbvars>>

\* the scenario lets one more run_job coroutine be created for job id j
MayRun(j) ==
    /\ Len(tasks) < limits.tasks
    /\ Cardinality({t \in 1..Len(tasks) : tasks[t].job = j}) < limits.per_job

\* start_job(job_id, ...): asyncio.create_task(self.run_job(...)), registered
start_job(j) ==
    /\ MayRun(j)
    /\ tasks' = Append(tasks, NewTask(j))
    /\ running_tasks' = (j :> (Len(tasks) + 1)) @@ running_tasks
    /\ ret' = Returned("start", j, "task", None)
    /\ UNCHANGED <<jobs, disk, nextId, lbvars>>

\* a client awaiting run_job(job_id, ...) itself: the coroutine is not registered
run_job(j) ==
    /\ MayRun(j)
    /\ tasks' = Append(tasks, NewTask(j))
    /\ ret' = Returned("run", j, "coroutine", None)
    /\ UNCHANGED <<jobs, running_tasks, disk, nextId, lbvars>>

\* task.cancel(): a finished task ignores it
TaskCancel(ts, t) == [ts EXCEPT ![t].cancel = (ts[t].state # "done")]

\* cancel_job(job_id); ret names the job only when the call changed something
cancel_job(j) ==
    IF j \notin DOMAIN jobs \/ jobs[j].status # "running"
    THEN /\ ret' = Returned("cancel", 0, "false", None)
         /\ UNCHANGED <<jobs, running_tasks, tasks, disk, nextId, lbvars>>
    ELSE IF j \in DOMAIN running_tasks
    THEN \E o \in limits.writes :
           LET w == _save_job_metadata(SetStatus(World(j), "cancelled"), o)
           IN /\ tasks' = TaskCancel(tasks, running_tasks[j])
              /\ jobs' = StoreJobs(j, w)
              /\ disk' = StoreDisk(j, w)
              /\ ret' = Returned("cancel", j,
                                 IF w.exc = None THEN "true" ELSE "raised", None)
              /\ UNCHANGED <<running_tasks, nextId, lbvars>>
    ELSE /\ ret' = Returned("cancel", 0, "false", None)
         /\ UNCHANGED <<jobs, running_tasks, tasks, disk, nextId, lbvars>>

\* the names glob("*.json") yields, less the two the loop skips
QuestionFileNames(files) == DOMAIN files \ {"metadata.json", "leaderboard.json"}

\* what load_job_results reads from a directory; json.load raises on a file
\* that is not valid JSON
ReadRaises(files) ==
    \E n \in DOMAIN files \ {"metadata.json"} : files[n] = None

ReadLeaderboard(files) ==
    IF "leaderboard.json" \in DOMAIN files THEN files["leaderboard.json"][1] ELSE <<>>

ReadByQuestion(files) ==
    [q \in {files[n][1].question_id : n \in QuestionFileNames(files)} |->
        LET n == CHOOSE n \in QuestionFileNames(files) : files[n][1].question_id = q
        IN files[n][1]]

\* load_job_results(job_id): it changes nothing, so it is an operator on the
\* state it is called in; out is "none" (None returned), "raised" or "value"
load_job_results(j) ==
    IF j \notin DOMAIN jobs THEN [out |-> "none", val |-> None]
    ELSE IF jobs[j].results_path = None THEN [out |-> "none", val |-> None]
    ELSE IF j \notin DOMAIN disk THEN [out |-> "none", val |-> None]
    ELSE IF ReadRaises(disk[j]) THEN [out |-> "raised", val |-> None]
    ELSE [out |-> "value",
          val |-> Some([job_id      |-> j,
                        metadata    |-> to_dict(jobs[j]),
                        leaderboard |-> ReadLeaderboard(disk[j]),
                        by_question |-> ReadByQuestion(disk[j])])]

\* the process ends and a new JobRunner(results_dir) is constructed on the
\* same results directory: __init__ starts with empty registries
Restart ==
    /\ limits.restart
    /\ jobs # EmptyMap
    /\ jobs' = EmptyMap
    /\ running_tasks' = EmptyMap
    /\ tasks' = <<>>
    /\ ret' = Returned("restart", 0, "", None)
    /\ UNCHANGED <<disk, nextId, lbvars>>


(***************************************************************************)
(* The steps of the event loop.                                            *)
(***************************************************************************)
TaskIds == 1..Len(tasks)

\* a gather that returns before its awaitables are done
ChildrenDoneAlways(t) == TRUE

ChildrenDone(t) ==
    \A i \in 1..Len(tasks[t].children) : tasks[t].children[i].pc = "done"

\* the coroutine of task t ends in world w
EndTask(t, j, w) ==
    /\ jobs' = StoreJobs(j, w)
    /\ disk' = StoreDisk(j, w)
    /\ tasks' = [tasks EXCEPT ![t] = DoneTask(j)]
    /\ ret' = Stepped(j, IF w.exc = None THEN "returned" ELSE "raised", w.caught)

\* the judge model and the two concurrency arguments of run_job
GateConfigs == (JudgeModels \cup {None}) \X GateSizes \X ProviderMaps

GateOf(cfg) == IF cfg[1] = None THEN 0 ELSE JudgeConcurrency(cfg[1], cfg[2], cfg[3])

\* the worlds the first part of run_job can leave, with the gate size
PrefixOutcomes(j) ==
    {LET w == RunPrefix(World(j), j, mkdir_ok, o, cfg[1], GateOf(cfg))
     IN [w |-> w, k |-> IF w.exc = None THEN GateOf(cfg) ELSE 0] :
        mkdir_ok \in BOOLEAN, o \in limits.writes, cfg \in GateConfigs}

\* the worlds the last part of run_job, with its except clause, can leave
SuffixOutcomes(w, children) ==
    {ExceptHandler(RunSuffix(w, children, o_lb, o_meta), o_h) :
        o_lb \in limits.writes, o_meta \in limits.writes, o_h \in limits.writes}

\* run_job from its first line to the await of asyncio.gather; gather of no
\* awaitable is already done, so a job without questions runs on to the end
RunStart(t) ==
    /\ t \in TaskIds
    /\ tasks[t].state = "created"
    /\ ~tasks[t].cancel
    /\ UNCHANGED <<running_tasks, nextId, lbvars>>
    /\ LET j == tasks[t].job
       IN IF j \notin DOMAIN jobs
          THEN /\ tasks' = [tasks EXCEPT ![t] = DoneTask(j)]
               /\ ret' = Stepped(j, "raised", None)
               /\ UNCHANGED <<jobs, disk>>
          ELSE \E r \in PrefixOutcomes(j) :
                 LET qs == jobs[j].question_ids
                 IN IF r.w.exc # None
                    THEN \E w \in {ExceptHandler(r.w, o_h) : o_h \in limits.writes} :
                           EndTask(t, j, w)
                    ELSE IF qs = <<>>
                    THEN \E w \in SuffixOutcomes(r.w, <<>>) : EndTask(t, j, w)
                    ELSE /\ jobs' = StoreJobs(j, r.w)
                         /\ disk' = StoreDisk(j, r.w)
                         /\ tasks' = [tasks EXCEPT
                                ![t].state = "gather",
                                ![t].gate = r.k,
                                ![t].value = r.k,
                                ![t].children = [i \in 1..Len(qs) |->
                                                   [pc |-> "wait", res |-> ""]]]
                         /\ ret' = Stepped(j, "suspended", None)

\* an exit of the async with that keeps the permit
releaseNever(value) == value

\* Semaphore.release, called by the exit of async with semaphore however the
\* body is left
release(value) == value + 1

\* an acquire that never waits
CanAcquireAlways(task) == TRUE

\* Semaphore.acquire does not wait when a permit is free
CanAcquire(task) == task.value > 0

\* _evaluate_question_with_semaphore from the acquire to the await of the
\* judge: the question lookup and the collection of the responses
QuestionStart(t, i) ==
    /\ t \in TaskIds
    /\ tasks[t].state = "gather"
    /\ ~tasks[t].cancel
    /\ i \in 1..Len(tasks[t].children)
    /\ tasks[t].children[i].pc = "wait"
    /\ CanAcquire(tasks[t])
    /\ \E ts \in {IF lookup_raises
                  THEN [tasks EXCEPT ![t].children[i] = [pc |-> "done", res |-> "exc"]]
                  ELSE IF ~found \/ responding = {}
                  THEN [tasks EXCEPT ![t].children[i] = [pc |-> "done", res |-> "none"]]
                  ELSE [tasks EXCEPT ![t].children[i].pc = "eval",
                                     ![t].value = @ - 1] :
                  lookup_raises \in BOOLEAN, found \in BOOLEAN,
                  responding \in SUBSET RunIds} :
         tasks' = ts
    /\ ret' = Stepped(tasks[t].job, "suspended", None)
    /\ UNCHANGED <<jobs, running_tasks, disk, nextId, lbvars>>

\* the judge call returns or raises; the result file is written; the permit
\* is released
QuestionFinish(t, i) ==
    /\ t \in TaskIds
    /\ tasks[t].state = "gather"
    /\ ~tasks[t].cancel
    /\ i \in 1..Len(tasks[t].children)
    /\ tasks[t].children[i].pc = "eval"
    /\ LET j == tasks[t].job
           q == jobs[j].question_ids[i]
       IN \E judge_raises \in BOOLEAN, o \in limits.writes :
            /\ disk' = IF judge_raises THEN disk
                       ELSE [disk EXCEPT ![j] = WriteFile(@, q, QuestionFile(q), o)]
            /\ tasks' = [tasks EXCEPT
                   ![t].children[i] =
                       [pc |-> "done",
                        res |-> IF judge_raises \/ o # "ok" THEN "exc" ELSE "ok"],
                   ![t].value = release(@)]
    /\ ret' = Stepped(tasks[t].job, "suspended", None)
    /\ UNCHANGED <<jobs, running_tasks, nextId, lbvars>>

\* gather passes the cancellation on to a child: CancelledError is raised at
\* its await and is no Exception, so only the async with releases the permit
QuestionCancelled(t, i) ==
    /\ t \in TaskIds
    /\ tasks[t].state = "gather"
    /\ tasks[t].cancel
    /\ i \in 1..Len(tasks[t].children)
    /\ tasks[t].children[i].pc # "done"
    /\ tasks' = [tasks EXCEPT
           ![t].children[i] = [pc |-> "done", res |-> "cancelled"],
           ![t].value = IF tasks[t].children[i].pc = "eval" THEN release(@) ELSE @]
    /\ ret' = Stepped(tasks[t].job, "suspended", None)
    /\ UNCHANGED <<jobs, running_tasks, disk, nextId, lbvars>>

\* CancelledError reaches run_job (at gather, or before its first line): the
\* except Exception clause does not catch it
RunCancelled(t) ==
    /\ t \in TaskIds
    /\ tasks[t].state # "done"
    /\ tasks[t].cancel
    /\ ChildrenDone(t)
    /\ tasks' = [tasks EXCEPT ![t] = DoneTask(tasks[t].job)]
    /\ ret' = Stepped(tasks[t].job, "cancelled", None)
    /\ UNCHANGED <<jobs, running_tasks, disk, nextId, lbvars>>

\* gather returns: run_job from the result loop to its end
RunFinish(t) ==
    /\ t \in TaskIds
    /\ tasks[t].state = "gather"
    /\ ~tasks[t].cancel
    /\ ChildrenDone(t)
    /\ LET j == tasks[t].job
       IN \E w \in SuffixOutcomes(World(j), tasks[t].children) : EndTask(t, j, w)
    /\ UNCHANGED <<running_tasks, nextId, lbvars>>

Init ==
    /\ jobs = EmptyMap
    /\ running_tasks = EmptyMap
    /\ tasks = <<>>
    /\ disk = EmptyMap
    /\ nextId = 1
    /\ ret = Stepped(0, "suspended", None)
    /\ limits \in Scenarios
    /\ lb_in = <<>>
    /\ lb_out = None
    /\ ev_in = None
    /\ ev_fs = [artifacts |-> EmptyMap, temps |-> EmptyMap]
    /\ ev_out = <<>>
    /\ fn_in = None
    /\ fn_out = None
    /\ BenchIdle

Next ==
    \/ \E qs \in QuestionLists : create_job(qs)
    \/ \E j \in JobIds : start_job(j)
    \/ \E j \in JobIds : run_job(j)
    \/ \E j \in JobIds : cancel_job(j)
    \/ Restart
    \/ \E t \in TaskIds : RunStart(t)
    \/ \E t \in TaskIds, i \in 1..MaxQuestions : QuestionStart(t, i)
    \/ \E t \in TaskIds, i \in 1..MaxQuestions : QuestionFinish(t, i)
    \/ \E t \in TaskIds, i \in 1..MaxQuestions : QuestionCancelled(t, i)
    \/ \E t \in TaskIds : RunCancelled(t)
    \/ \E t \in TaskIds : RunFinish(t)

Spec == Init /\ [][Next]_vars

\* the steps the event loop takes on its own: every coroutine that is ready
\* to run (a created task, a question that can take a permit, a judge call
\* that has returned or raised, a cancellation to deliver, a gather whose
\* awaitables are done) is run
EventLoop ==
    \E t \in TaskIds :
        \/ RunStart(t)
        \/ \E i \in 1..MaxQuestions : QuestionStart(t, i)
        \/ \E i \in 1..MaxQuestions : QuestionFinish(t, i)
        \/ \E i \in 1..MaxQuestions : QuestionCancelled(t, i)
        \/ RunCancelled(t)
        \/ RunFinish(t)

\* the event loop never stops while a coroutine is ready, and every judge
\* call returns or raises
SpecFair == Init /\ [][Next]_vars /\ WF_vars(EventLoop)


(***************************************************************************)
(* _calculate_leaderboard on its own: every all_results of up to           *)
(* MaxLbQuestions questions over ModelNames and Scores.                    *)
(***************************************************************************)
LbQuestionIds == <<"q1", "q2", "q3", "q4">>

\* the dicts model_name -> {score, passed}: every order of every subset
RECURSIVE ResultDicts(_)
ResultDicts(models) ==
    {<<>>} \cup
    UNION {{<<[model |-> m, score |-> sc, passed |-> p]>> \o d :
              sc \in Scores, p \in BOOLEAN, d \in ResultDicts(models \ {m})} :
           m \in models}

RECURSIVE LbInputs(_)
LbInputs(n) ==
    IF n = 0 THEN {<<>>}
    ELSE LbInputs(n - 1) \cup
         {Append(a, [qid |-> LbQuestionIds[n], results |-> d]) :
            a \in {x \in LbInputs(n - 1) : Len(x) = n - 1},
            d \in ResultDicts(ModelNames)}

InitLB ==
    /\ jobs = EmptyMap
    /\ running_tasks = EmptyMap
    /\ tasks = <<>>
    /\ disk = EmptyMap
    /\ nextId = 1
    /\ ret = Stepped(0, "suspended", None)
    /\ limits = [jobs |-> 0, tasks |-> 0, per_job |-> 0, lists |-> {},
                 writes |-> {}, restart |-> FALSE, ticks |-> {}]
    /\ lb_in \in LbInputs(MaxLbQuestions)
    /\ lb_out = None
    /\ ev_in = None
    /\ ev_fs = [artifacts |-> EmptyMap, temps |-> EmptyMap]
    /\ ev_out = <<>>
    /\ fn_in = None
    /\ fn_out = None
    /\ BenchIdle

Calculate ==
    /\ lb_out = None
    /\ lb_out' = Some(_calculate_leaderboard(lb_in))
    /\ UNCHANGED <<jobvars, lb_in, evvars, fnvars>>

NextLB == Calculate

SpecLB == InitLB /\ [][NextLB]_vars

(***************************************************************************)
(* CodeExecutor.evaluate (llm-benchmark/src/evaluators/code_executor.py)   *)
(* and the ArtifactExtractor it uses (src/artifact_extractor.py).          *)
(*                                                                         *)
(* A response text is a piece of prose and a sequence of fenced blocks.    *)
(* A block has the tag after its opening fence (lang), the filename hint   *)
(* that precedes it (conv is the number of the hinting convention, 0 for   *)
(* none), and its code.  A piece of code or prose is represented by what   *)
(* the program looks for in it: the markers it contains (marks) and the    *)
(* file names that occur in it (refs).  Blank code has neither.            *)
(* Strings the program compares character by character (the expected       *)
(* output, the captured stdout) are sequences of characters.               *)
(***************************************************************************)
MaxBlocks == 2
MaxEvaluations == 2

Whitespace == {" ", "\n"}

RECURSIVE LStrip(_)
LStrip(s) == IF s # <<>> /\ Head(s) \in Whitespace THEN LStrip(Tail(s)) ELSE s

RECURSIVE RStrip(_)
RStrip(s) ==
    IF s # <<>> /\ s[Len(s)] \in Whitespace THEN RStrip(SubSeq(s, 1, Len(s) - 1)) ELSE s

\* str.strip()
strip(s) == RStrip(LStrip(s))

\* a in b, for strings
IsSubstring(a, b) ==
    \E i \in 0..(Len(b) - Len(a)) : SubSeq(b, i + 1, i + Len(a)) = a

\* str.lower() on a marker or a tag
lower(m) ==
    IF m = "<!DOCTYPE" THEN "<!doctype"
    ELSE IF m = "HTML" THEN "html"
    ELSE m

\* the markers that contain a shorter marker the program also looks for
Within ==
    {<<"import", "import ">>, <<"function", "function ">>, <<"<html", "<html>">>,
     <<"import", "!important">>}

\* a containment test that finds every marker in every non-empty text
OccursAnything(marker, code) == code.marks # {}

\* marker in code
Occurs(marker, code) ==
    \E m \in code.marks : marker = m \/ <<marker, m>> \in Within

\* marker in code.lower()
OccursLower(marker, code) ==
    \E m \in code.marks : marker = lower(m) \/ <<marker, lower(m)>> \in Within

Blank == [marks |-> {}, refs |-> {}]

\* a.b, or a<n>.b when n > 0
FileName(base, n, ext) == [base |-> base, n |-> n, ext |-> ext]

\* name.endswith('.' + ext)
endswith(name, ext) == name.ext = ext

IndexHtml == FileName("index", 0, "html")
StylesCss == FileName("styles", 0, "css")
AppJs == FileName("app", 0, "js")
ServerJs == FileName("server", 0, "js")

\* an insertion-ordered dict of file name -> content: files[name] = content
DictPut(files, name, content) ==
    LET hits == {n \in 1..Len(files) : files[n].name = name}
    IN IF hits = {} THEN Append(files, [name |-> name, content |-> content])
       ELSE [files EXCEPT ![CHOOSE n \in hits : TRUE].content = content]

Keys(files) == {files[n].name : n \in 1..Len(files)}

\* the matches of the pattern of convention c, in document order
RECURSIVE PutHinted(_, _, _, _)
PutHinted(files, blocks, c, i) ==
    IF i > Len(blocks) THEN files
    ELSE PutHinted(IF blocks[i].conv = c
                   THEN DictPut(files, blocks[i].filename, blocks[i].code)
                   ELSE files,
                   blocks, c, i + 1)

\* _infer_files_from_blocks: the loop over the fenced blocks from the i-th on
RECURSIVE InferFiles(_, _, _, _, _, _)
InferFiles(files, blocks, i, html_count, css_count, js_count) ==
    IF i > Len(blocks) THEN files
    ELSE LET lang == lower(blocks[i].lang)
             code == blocks[i].code
         IN IF lang \in {"html", "htm"} \/ OccursLower("<html", code)
                  \/ Occurs("<!DOCTYPE", code)
            THEN InferFiles(
                    DictPut(files,
                            IF html_count = 0 THEN IndexHtml
                            ELSE FileName("page", html_count, "html"), code),
                    blocks, i + 1, html_count + 1, css_count, js_count)
            ELSE IF lang = "css"
            THEN InferFiles(
                    DictPut(files,
                            IF css_count = 0 THEN StylesCss
                            ELSE FileName("styles", css_count, "css"), code),
                    blocks, i + 1, html_count, css_count + 1, js_count)
            ELSE IF lang \in {"javascript", "js", "jsx"}
            THEN InferFiles(
                    DictPut(files,
                            IF Occurs("export ", code) \/ Occurs("import ", code)
                            THEN (IF js_count = 0 THEN AppJs
                                  ELSE FileName("module", js_count, "js"))
                            ELSE (IF js_count = 0 THEN FileName("script", 0, "js")
                                  ELSE FileName("script", js_count, "js")), code),
                    blocks, i + 1, html_count, css_count, js_count + 1)
            ELSE IF lang \in {"typescript", "ts", "tsx"}
            THEN InferFiles(
                    DictPut(files, FileName("app", js_count, "ts"), code),
                    blocks, i + 1, html_count, css_count, js_count + 1)
            ELSE IF lang = "json"
            THEN InferFiles(DictPut(files, FileName("config", 0, "json"), code),
                            blocks, i + 1, html_count, css_count, js_count)
            ELSE InferFiles(files, blocks, i + 1, html_count, css_count, js_count)

_infer_files_from_blocks(text) == InferFiles(<<>>, text.blocks, 1, 0, 0, 0)

_extract_files_from_response(text) ==
    LET files1 == PutHinted(<<>>, text.blocks, 1, 1)
        files2 == PutHinted(files1, text.blocks, 2, 1)
        files3 == PutHinted(files2, text.blocks, 3, 1)
        files4 == PutHinted(files3, text.blocks, 4, 1)
    IN IF files4 = <<>> THEN _infer_files_from_blocks(text) ELSE files4

\* the first key, whatever it is
FirstKey(files) == files[1].name

_determine_entry_point(files) ==
    LET html_files == {n \in 1..Len(files) : endswith(files[n].name, "html")}
    IN IF IndexHtml \in Keys(files) THEN IndexHtml
       ELSE IF html_files # {}
       THEN files[CHOOSE n \in html_files : \A k \in html_files : n <= k].name
       ELSE files[1].name

is_multi_file(files) ==
    \/ Len(files) > 1
    \/ \E n \in 1..Len(files) :
          Occurs("import", files[n].content) \/ Occurs("require(", files[n].content)

\* what the operating system does during one evaluation:
\*   write  "ok", "mkdir_fails" (a directory cannot be created) or
\*          "write_fails" (the first file cannot be written)
\*   proc   how the interpreter subprocess ends: "exit0", "exit1", "timeout",
\*          "not_found"; stdout is what it printed
\*   rmtree "ok" or "fails" (shutil.rmtree raises and removes nothing)
WriteModes == {"ok", "mkdir_fails", "write_fails"}
ProcModes == {"exit0", "exit1", "timeout", "not_found"}
RmtreeModes == {"ok", "fails"}

\* shutil.rmtree(dir) on the artifact directories or the temp directories
Rmtree(dirs, d, env) ==
    IF env.rmtree = "ok" THEN [x \in DOMAIN dirs \ {d} |-> dirs[x]] ELSE dirs

\* a mkdir that refuses a directory that is already there
MkdirNew(dirs, d, env) ==
    IF env.write = "mkdir_fails" \/ d \in DOMAIN dirs
    THEN [exc |-> Some("mkdir"), dirs |-> dirs]
    ELSE [exc |-> None, dirs |-> (d :> {}) @@ dirs]

\* Path.mkdir(exist_ok=True, parents=True)
Mkdir(dirs, d, env) ==
    IF env.write = "mkdir_fails" THEN [exc |-> Some("mkdir"), dirs |-> dirs]
    ELSE [exc |-> None,
          dirs |-> IF d \in DOMAIN dirs THEN dirs ELSE (d :> {}) @@ dirs]

\* extract_multi_file_artifact(response_text, artifact_id): the artifact or
\* None in ret, the exception that leaves it in exc, the file system in fs,
\* the directory it made or wrote in dir
extract_multi_file_artifact(text, artifact_id, fs, env) ==
    LET files == _extract_files_from_response(text)
        made  == Mkdir(fs.artifacts, artifact_id, env)
    IN IF files = <<>> THEN [ret |-> None, exc |-> None, fs |-> fs, dir |-> None]
       ELSE IF is_multi_file(files)
       THEN IF made.exc # None
            THEN [ret |-> None, exc |-> made.exc, fs |-> fs, dir |-> None]
            ELSE IF env.write = "write_fails"
            THEN [ret |-> None, exc |-> Some("write_text"),
                  fs  |-> [fs EXCEPT !.artifacts = made.dirs],
                  dir |-> Some(artifact_id)]
            ELSE [ret |-> Some([type        |-> "multi_file",
                                entry_point |-> _determine_entry_point(files),
                                files       |-> files]),
                  exc |-> None,
                  fs  |-> [fs EXCEPT !.artifacts =
                              [made.dirs EXCEPT ![artifact_id] = @ \cup Keys(files)]],
                  dir |-> Some(artifact_id)]
       ELSE [ret |-> Some([type        |-> "single_file",
                           entry_point |-> files[1].name,
                           files       |-> files]),
             exc |-> None, fs |-> fs, dir |-> None]

\* cleanup_artifact(artifact_id)
cleanup_artifact(artifact_id, fs, env) ==
    IF artifact_id \in DOMAIN fs.artifacts
    THEN [exc |-> IF env.rmtree = "ok" THEN None ELSE Some("rmtree"),
          fs  |-> [fs EXCEPT !.artifacts = Rmtree(@, artifact_id, env)]]
    ELSE [exc |-> None, fs |-> fs]

\* the class the loop of _extract_code puts a block in: "skip" for a blank
\* block, "dropped" for one that no list receives
BlockClass(block) ==
    LET lang == lower(block.lang)
        code == block.code
    IN IF code = Blank THEN "skip"
       ELSE IF lang \in {"html", "htm"} \/ OccursLower("<html", code)
                 \/ Occurs("<!DOCTYPE", code) THEN "html"
       ELSE IF lang = "css" THEN "css"
       ELSE IF lang \in {"javascript", "js"} THEN "js"
       ELSE IF lang \in {"python", "py"} THEN "python"
       ELSE IF lang = ""
       THEN (IF Occurs("def ", code) \/ Occurs("import ", code) \/ Occurs("print(", code)
             THEN "python"
             ELSE IF Occurs("function", code) \/ Occurs("const ", code)
                       \/ Occurs("let ", code) \/ Occurs("var ", code)
             THEN "js"
             ELSE "other")
       ELSE "dropped"

\* the codes of the blocks of one class, in document order
RECURSIVE BlocksOf(_, _, _)
BlocksOf(blocks, class, i) ==
    IF i > Len(blocks) THEN <<>>
    ELSE (IF BlockClass(blocks[i]) = class THEN <<blocks[i].code>> ELSE <<>>)
         \o BlocksOf(blocks, class, i + 1)

\* separator.join(codes), and a + b
Join(codes) ==
    [marks |-> UNION {codes[n].marks : n \in 1..Len(codes)},
     refs  |-> UNION {codes[n].refs : n \in 1..Len(codes)}]

Concat(a, b) == Join(<<a, b>>)

Literal(marks) == [marks |-> marks, refs |-> {}]

\* the first complete HTML document of html_blocks with the stylesheets and
\* scripts injected; str.replace changes nothing when its target is absent
InjectInto(html, css_blocks, js_blocks) ==
    LET style  == Concat(Literal({"<style>"}), Join(css_blocks))
        script == Concat(Literal({"<script>"}), Join(js_blocks))
        r1 == IF css_blocks # <<>> /\ ~OccursLower("<style>", html)
              THEN (IF OccursLower("</head>", html)
                    THEN (IF Occurs("</head>", html) THEN Concat(html, style) ELSE html)
                    ELSE (IF Occurs("<html>", html)
                          THEN Concat(html, Concat(Literal({"</head>"}), style))
                          ELSE html))
              ELSE html
    IN IF js_blocks # <<>> /\ ~OccursLower("<script>", html)
       THEN (IF OccursLower("</body>", html)
             THEN (IF Occurs("</body>", r1) THEN Concat(r1, script) ELSE r1)
             ELSE Concat(r1, script))
       ELSE r1

HtmlWrapper == Literal({"<!DOCTYPE", "<html>", "</head>", "<body", "</body>", "</html>"})

\* _extract_code(text): found is whether code is not None, language "" is None
_extract_code(text) ==
    LET blocks == text.blocks
        whole  == Literal(text.prose)
        html_blocks   == BlocksOf(blocks, "html", 1)
        css_blocks    == BlocksOf(blocks, "css", 1)
        js_blocks     == BlocksOf(blocks, "js", 1)
        python_blocks == BlocksOf(blocks, "python", 1)
        other_blocks  == BlocksOf(blocks, "other", 1)
        complete == {n \in 1..Len(html_blocks) :
                        \/ OccursLower("<html", html_blocks[n])
                        \/ OccursLower("<!DOCTYPE", html_blocks[n])}
        NoCode == [found |-> FALSE, code |-> Blank, language |-> ""]
    IN IF text.prose = {} /\ blocks = <<>> THEN NoCode
       ELSE IF blocks = <<>>
       THEN (IF OccursLower("<html", whole) \/ OccursLower("<!doctype html", whole)
             THEN [found |-> TRUE, code |-> whole, language |-> "html"]
             ELSE IF Occurs("def ", whole) \/ Occurs("import ", whole)
                       \/ Occurs("class ", whole)
             THEN [found |-> TRUE, code |-> whole, language |-> "python"]
             ELSE IF Occurs("function ", whole) \/ Occurs("const ", whole)
                       \/ Occurs("let ", whole) \/ Occurs("var ", whole)
             THEN [found |-> TRUE, code |-> whole, language |-> "javascript"]
             ELSE NoCode)
       ELSE IF html_blocks # <<>>
       THEN (IF complete # {}
             THEN [found |-> TRUE,
                   code  |-> InjectInto(
                                html_blocks[CHOOSE n \in complete :
                                               \A k \in complete : n <= k],
                                css_blocks, js_blocks),
                   language |-> "html"]
             ELSE [found |-> TRUE,
                   code  |-> Join(<<HtmlWrapper, Join(html_blocks),
                                    IF css_blocks = <<>> THEN Blank
                                    ELSE Concat(Literal({"<style>"}), Join(css_blocks)),
                                    IF js_blocks = <<>> THEN Blank
                                    ELSE Concat(Literal({"<script>"}), Join(js_blocks))>>),
                   language |-> "html"])
       ELSE IF python_blocks # <<>>
       THEN [found |-> TRUE, code |-> Join(python_blocks), language |-> "python"]
       ELSE IF js_blocks # <<>>
       THEN [found |-> TRUE, code |-> Join(js_blocks), language |-> "javascript"]
       ELSE IF css_blocks # <<>>
       THEN [found |-> TRUE,
             code  |-> Join(<<HtmlWrapper, Literal({"<style>"}), Join(css_blocks)>>),
             language |-> "html"]
       ELSE IF other_blocks # <<>>
       THEN [found |-> TRUE, code |-> other_blocks[1], language |-> "unknown"]
       ELSE NoCode

\* the result of a run: (success, output, error) with the file system it
\* leaves, whether a subprocess was started and the temp directory it made
Ran(success, output, error, fs, subprocess, temp_dir) ==
    [success |-> success, output |-> output, error |-> error, fs |-> fs,
     subprocess |-> subprocess, temp_dir |-> temp_dir]

\* the part of _execute_python and _execute_javascript from mkdtemp on; d is
\* the fresh name mkdtemp picks
ExecuteInTempDir(script, fs, env, d, subprocess) ==
    LET made    == Mkdir(fs.temps, d, env)
        written == [fs EXCEPT !.temps = [made.dirs EXCEPT ![d] = {script}]]
        dir     == [fs EXCEPT !.temps = made.dirs]
        Finally(f) == [f EXCEPT !.temps = Rmtree(@, d, env)]
    IN IF made.exc # None
       THEN Ran(FALSE, <<>>, "mkdtemp", fs, subprocess, None)
       ELSE IF env.write = "write_fails"
       THEN Ran(FALSE, <<>>, "open", Finally(dir), subprocess, Some(d))
       ELSE IF env.proc = "not_found"
       THEN Ran(FALSE, <<>>, "No such file or directory", Finally(written),
                subprocess, Some(d))
       ELSE IF env.proc = "timeout"
       THEN Ran(FALSE, <<>>, "Execution timed out", Finally(written), TRUE, Some(d))
       ELSE Ran(env.proc = "exit0", env.stdout, env.stderr, Finally(written),
                TRUE, Some(d))

_execute_python(code, fs, env, d) ==
    ExecuteInTempDir("script.py", fs, env, d, FALSE)

\* the check for node comes first; the model gives node and its version
\* check the same availability
_execute_javascript(code, fs, env, d) ==
    IF env.proc = "not_found"
    THEN Ran(FALSE, <<>>, "Node.js is not installed or not in PATH", fs, FALSE, None)
    ELSE ExecuteInTempDir("script.js", fs, env, d, TRUE)

HtmlValid ==
    <<"H", "T", "M", "L", " ", "s", "t", "r", "u", "c", "t", "u", "r", "e", " ",
      "i", "s", " ", "v", "a", "l", "i", "d">>

\* _validate_html(code); the marker "</body><body" stands for a closing body
\* tag that comes before the opening one
_validate_html(code, fs) ==
    IF \E tag \in {"<html", "</html>", "<body", "</body>"} : ~OccursLower(tag, code)
    THEN Ran(FALSE, <<>>, "Missing required HTML tags", fs, FALSE, None)
    ELSE IF OccursLower("</body><body", code)
    THEN Ran(FALSE, <<>>, "Invalid HTML structure", fs, FALSE, None)
    ELSE Ran(TRUE, HtmlValid, "", fs, FALSE, None)

\* an Evaluation that is passed whatever the caller decided
EvaluationAlwaysPassed(score, passed, evaluation_type, reasoning, components) ==
    [exc |-> None, score |-> score, passed |-> TRUE,
     evaluation_type |-> evaluation_type, reasoning |-> reasoning,
     score_components |-> components, details |-> None,
     subprocess |-> FALSE, temp_dir |-> None, artifact_dir |-> None]

\* an Evaluation, or the exception that left evaluate (exc), with what the
\* call did on the way: whether it started a subprocess, the temp directory
\* it made for the execution and the artifact directory it wrote; details
\* holds language, execution_success and output when code was run
Evaluation(score, passed, evaluation_type, reasoning, components) ==
    [exc |-> None, score |-> score, passed |-> passed,
     evaluation_type |-> evaluation_type, reasoning |-> reasoning,
     score_components |-> components, details |-> None,
     subprocess |-> FALSE, temp_dir |-> None, artifact_dir |-> None]

Raised(exc) ==
    [Evaluation(0, FALSE, "", <<>>, <<>>) EXCEPT !.exc = exc]

\* the expected files that are no key of files, in their order
RECURSIVE MissingFiles(_, _, _)
MissingFiles(expected_files, files, i) ==
    IF i > Len(expected_files) THEN <<>>
    ELSE (IF expected_files[i] \in Keys(files) THEN <<>> ELSE <<expected_files[i]>>)
         \o MissingFiles(expected_files, files, i + 1)

\* the four score components of _evaluate_multi_file_artifact
EntryPointScore(entry_point) ==
    IF endswith(entry_point, "html") THEN <<30>> ELSE <<>>

LinkingScore(files, entry_point) ==
    IF entry_point \in Keys(files)
    THEN LET html_content == files[CHOOSE n \in 1..Len(files) :
                                      files[n].name = entry_point].content
             css_files == {f \in Keys(files) : endswith(f, "css")}
             js_files  == {f \in Keys(files) : endswith(f, "js") \/ endswith(f, "jsx")}
             css_linked_correctly == \A f \in css_files : f \in html_content.refs
             js_linked_correctly  == \A f \in js_files : f \in html_content.refs
         IN IF css_linked_correctly /\ js_linked_correctly THEN <<30>>
            ELSE IF css_linked_correctly \/ js_linked_correctly THEN <<15>>
            ELSE <<>>
    ELSE <<>>

RequiredFilesScore(missing_files, expected_files) ==
    IF missing_files = <<>> THEN <<20>>
    ELSE IF Len(missing_files) < Len(expected_files) THEN <<10>>
    ELSE <<>>

FileCountScore(files) ==
    IF 1 < Len(files) /\ Len(files) <= 10 THEN <<20>>
    ELSE IF Len(files) > 10 THEN <<10>>
    ELSE <<>>

\* a threshold of more than 70
PassedAbove70(total_score) == total_score > 70

PassedThreshold(total_score) == total_score >= 70

\* a multi-file path that runs the entry point with an interpreter
RunsEntryPoint(question, artifact_id, artifact, fs, env) ==
    [out |-> [Evaluation(0, FALSE, "code_execution", <<"failed">>, <<>>)
              EXCEPT !.subprocess = TRUE, !.artifact_dir = Some(artifact_id)],
     fs  |-> fs]

\* _evaluate_multi_file_artifact(question, response, multi_file_artifact);
\* expected_files that cannot be iterated raise before the cleanup
_evaluate_multi_file_artifact(question, artifact_id, artifact, fs, env) ==
    LET files == artifact.files
        expected == question.metadata.expected_files
        missing_files == MissingFiles(expected.items, files, 1)
        score_components ==
            EntryPointScore(artifact.entry_point)
            \o LinkingScore(files, artifact.entry_point)
            \o RequiredFilesScore(missing_files, expected.items)
            \o FileCountScore(files)
        total_score == SumSeq(score_components)
        passed == PassedThreshold(total_score)
        cleaned == cleanup_artifact(artifact_id, fs, env)
    IN IF ~expected.iterable
       THEN [out |-> [Raised(Some("TypeError")) EXCEPT !.artifact_dir = Some(artifact_id)],
             fs  |-> fs]
       ELSE [out |-> [Evaluation(total_score, passed, "code_execution_multi_file",
                                 IF passed THEN <<"Multi-file application validated successfully">>
                                 ELSE <<"Multi-file application has issues">>,
                                 score_components)
                      EXCEPT !.artifact_dir = Some(artifact_id)],
             fs  |-> cleaned.fs]

\* f"eval_{question.id}_{response.model_name}".replace('/', '_')
ArtifactId(question, response) ==
    LET s == <<"eval_", question.id, "_">> \o response.model_name
    IN [i \in 1..Len(s) |-> IF s[i] = "/" THEN "_" ELSE s[i]]

\* the scores of the single-blob path of evaluate
ScoreExecution(success, expected_output, output) ==
    IF ~success THEN [score |-> 0, passed |-> FALSE, reasoning |-> "failed"]
    ELSE IF expected_output # None /\ expected_output[1] # <<>>
    THEN (IF IsSubstring(strip(expected_output[1]), strip(output))
          THEN [score |-> 100, passed |-> TRUE, reasoning |-> "matches"]
          ELSE [score |-> 50, passed |-> FALSE, reasoning |-> "mismatch"])
    ELSE [score |-> 100, passed |-> TRUE, reasoning |-> "success"]

\* evaluate(question, response) on file system fs; d names the directory
\* mkdtemp would make
evaluate(question, response, fs, env, d) ==
    LET text == response.response_text[1]
        artifact_id == ArtifactId(question, response)
        x == extract_multi_file_artifact(text, artifact_id, fs, env)
        c == _extract_code(text)
        r == IF c.language \in {"python", "py"}
             THEN _execute_python(c.code, fs, env, d)
             ELSE IF c.language \in {"javascript", "js"}
             THEN _execute_javascript(c.code, fs, env, d)
             ELSE _validate_html(c.code, fs)
        s == ScoreExecution(r.success, question.expected_output, r.output)
    IN IF response.error # None
       THEN [out |-> Evaluation(0, FALSE, "code_execution",
                                <<"Response failed with error: ", response.error[1]>>,
                                <<>>),
             fs |-> fs]
       ELSE IF response.response_text = None
                 \/ (text.prose = {} /\ text.blocks = <<>>)
       THEN [out |-> Evaluation(0, FALSE, "code_execution",
                                <<"Response text is empty or None">>, <<>>),
             fs |-> fs]
       ELSE IF x.exc # None
       THEN [out |-> [Raised(x.exc) EXCEPT !.artifact_dir = x.dir], fs |-> x.fs]
       ELSE IF x.ret # None /\ x.ret[1].type = "multi_file"
       THEN _evaluate_multi_file_artifact(question, artifact_id, x.ret[1], x.fs, env)
       ELSE IF ~c.found
       THEN [out |-> Evaluation(0, FALSE, "code_execution",
                                <<"No code block found in response. ",
                                  IF text.blocks # <<>>
                                  THEN "Response contains a code fence but code extraction failed."
                                  ELSE "Response does not contain markdown code blocks.">>,
                                <<>>),
             fs |-> x.fs]
       ELSE IF c.language \notin {"python", "py", "javascript", "js", "html", "htm"}
       THEN [out |-> Evaluation(0, FALSE, "code_execution",
                                <<"Unsupported language: ", c.language>>, <<>>),
             fs |-> x.fs]
       ELSE [out |-> [Evaluation(s.score, s.passed, "code_execution",
                                 <<s.reasoning>>, <<>>)
                      EXCEPT !.details = Some([language |-> c.language,
                                               execution_success |-> r.success,
                                               output |-> r.output]),
                             !.subprocess = r.subprocess, !.temp_dir = r.temp_dir],
             fs |-> r.fs]

(***************************************************************************)
(* The (question, response) pairs evaluated.                               *)
(***************************************************************************)
HtmlDocument == {"<html>", "</html>", "<body", "</body>"}

Block(lang, conv, filename, marks, refs) ==
    [lang |-> lang, conv |-> conv, filename |-> filename,
     code |-> [marks |-> marks, refs |-> refs]]

NoName == FileName("", 0, "")

\* fenced blocks without a filename hint
PlainBlocks ==
    { Block("python", 0, NoName, {"print("}, {}),
      Block("prolog", 0, NoName, {"fact."}, {}),
      Block("", 0, NoName, {"fact."}, {}),
      Block("html", 0, NoName, HtmlDocument, {}),
      Block("js", 0, NoName, {"import "}, {}),
      Block("python", 0, NoName, {}, {}) }

\* fenced blocks preceded by <!-- filename: ... -->
HintedBlocks ==
    { Block("html", 2, IndexHtml, HtmlDocument, {StylesCss, AppJs}),
      Block("html", 2, IndexHtml, HtmlDocument \cup {"import "}, {}),
      Block("css", 2, StylesCss, {"color"}, {}),
      Block("javascript", 2, AppJs, {"function "}, {}) }

\* eleven stylesheets, each under its own name
ManyStylesheets ==
    [k \in 1..11 |-> Block("css", 2, FileName("styles", k, "css"), {"color"}, {})]

RECURSIVE SeqsUpTo(_, _)
SeqsUpTo(S, n) ==
    IF n = 0 THEN {<<>>}
    ELSE SeqsUpTo(S, n - 1)
         \cup {Append(s, x) : s \in {y \in SeqsUpTo(S, n - 1) : Len(y) = n - 1}, x \in S}

Texts ==
    {[prose |-> p, blocks |-> <<>>] : p \in {{}, {"hello"}, {"hello", "def "}}}
    \cup {[prose |-> {"hello"}, blocks |-> bs] :
            bs \in (SeqsUpTo(PlainBlocks, MaxBlocks)
                    \cup SeqsUpTo(HintedBlocks, MaxBlocks + 1)) \ {<<>>}}
    \cup {[prose |-> {"hello"}, blocks |-> ManyStylesheets]}

MakeResponse(error, response_text) ==
    [model_name |-> <<"openai", "/", "gpt-4">>, error |-> error,
     response_text |-> response_text]

MakeQuestion(expected_output, expected_files) ==
    [id |-> "q1", expected_output |-> expected_output,
     metadata |-> [expected_files |-> expected_files]]

\* the expected-output hints: none, "hi" and " hi"
Hints == {None, Some(<<"h", "i">>), Some(<<" ", "h", "i">>)}

\* metadata['expected_files']: lists of names, and a value that is no list
NoExpectedFiles == [iterable |-> TRUE, items |-> <<>>]
ExpectedFiles ==
    {[iterable |-> TRUE, items |-> fs] :
        fs \in {<<>>, <<IndexHtml>>, <<IndexHtml, ServerJs>>, <<ServerJs>>}}
    \cup {[iterable |-> FALSE, items |-> <<>>]}

\* what the interpreter prints when it exits: "hi\n" or "ho" on stdout, and
\* a traceback on stderr when it exits with an error
Envs ==
    {[write |-> w, proc |-> p[1], stdout |-> p[2], rmtree |-> r,
      stderr |-> IF p[1] = "exit1" THEN "Traceback" ELSE ""] :
        w \in WriteModes, r \in RmtreeModes,
        p \in ({"exit0", "exit1"} \X {<<"h", "i", "\n">>, <<"h", "o">>})
              \cup ({"timeout", "not_found"} \X {<<>>})}

\* the expected output is read on the single-blob path only and the expected
\* files on the multi-file path only, so each is varied where it is read
EvalInputs ==
    {[question |-> MakeQuestion(None, NoExpectedFiles),
      response |-> MakeResponse(e, t), env |-> env] :
        e \in {Some("upstream")}, t \in {None, Some([prose |-> {"hello"}, blocks |-> <<>>])},
        env \in {x \in Envs : x.write = "ok" /\ x.rmtree = "ok" /\ x.proc = "exit0"}}
    \cup {[question |-> MakeQuestion(None, NoExpectedFiles),
           response |-> MakeResponse(None, None), env |-> env] :
             env \in {x \in Envs : x.write = "ok" /\ x.rmtree = "ok" /\ x.proc = "exit0"}}
    \cup UNION {
           IF is_multi_file(_extract_files_from_response(t))
           THEN {[question |-> MakeQuestion(None, x),
                  response |-> MakeResponse(None, Some(t)), env |-> env] :
                    x \in ExpectedFiles,
                    env \in {y \in Envs : y.proc = "timeout"}}
           ELSE {[question |-> MakeQuestion(h, NoExpectedFiles),
                  response |-> MakeResponse(None, Some(t)), env |-> env] :
                    h \in Hints, env \in Envs} : t \in Texts}

EmptyFs == [artifacts |-> EmptyMap, temps |-> EmptyMap]

InitEval ==
    /\ jobs = EmptyMap
    /\ running_tasks = EmptyMap
    /\ tasks = <<>>
    /\ disk = EmptyMap
    /\ nextId = 1
    /\ ret = Stepped(0, "suspended", None)
    /\ limits = [jobs |-> 0, tasks |-> 0, per_job |-> 0, lists |-> {},
                 writes |-> {}, restart |-> FALSE, ticks |-> {}]
    /\ lb_in = <<>>
    /\ lb_out = None
    /\ ev_in \in {Some(i) : i \in EvalInputs}
    /\ ev_fs = EmptyFs
    /\ ev_out = <<>>
    /\ fn_in = None
    /\ fn_out = None
    /\ BenchIdle

\* one call of evaluate on the pair, on the file system the calls before left
Evaluate ==
    /\ ev_in # None
    /\ Len(ev_out) < MaxEvaluations
    /\ LET e == evaluate(ev_in[1].question, ev_in[1].response, ev_fs,
                         ev_in[1].env, Len(ev_out) + 1)
       IN /\ ev_out' = Append(ev_out, e.out)
          /\ ev_fs' = e.fs
    /\ UNCHANGED <<jobvars, lb_in, lb_out, ev_in, fnvars>>

NextEval == Evaluate

SpecEval == InitEval /\ [][NextEval]_vars


(***************************************************************************)
(* Single calls: extract_multi_file_artifact on a text and a file system,  *)
(* the gate size run_job derives from its arguments, and the artifact ids  *)
(* evaluate derives for two evaluations.                                   *)
(***************************************************************************)
AboutHtml == FileName("about", 0, "html")

\* texts that mix the hinting conventions (1: ```lang:name, 2: <!-- filename:
\* name -->, 3: // filename: name, 4: ### name), that repeat a kind of block
\* without a hint, or that hold a single file
MixedTexts ==
    {[prose |-> {"hello"}, blocks |-> bs] : bs \in
        { << Block("html", 1, IndexHtml, HtmlDocument, {}),
             Block("css", 2, StylesCss, {"color"}, {}) >>,
          << Block("html", 2, IndexHtml, HtmlDocument, {}),
             Block("html", 1, IndexHtml, {"<html>", "draft"}, {}) >>,
          << Block("javascript", 3, AppJs, {"function "}, {}),
             Block("css", 4, StylesCss, {"color"}, {}) >>,
          << Block("css", 4, StylesCss, {"color"}, {}),
             Block("javascript", 3, AppJs, {"function "}, {}) >>,
          << Block("css", 2, StylesCss, {"color"}, {}),
             Block("html", 2, AboutHtml, HtmlDocument, {}) >>,
          << Block("json", 0, NoName, {"name"}, {}),
             Block("json", 0, NoName, {"port"}, {}) >>,
          << Block("ts", 0, NoName, {"const "}, {}),
             Block("js", 0, NoName, {"export "}, {}) >>,
          << Block("css", 0, NoName, {"color"}, {}),
             Block("css", 0, NoName, {"margin"}, {}) >>,
          << Block("css", 2, StylesCss, {"color", "!important"}, {}) >>,
          << Block("javascript", 2, AppJs, {"require("}, {}) >>,
          << Block("json", 0, NoName, {"name"}, {}) >> }}

\* the file systems a call of the extractor finds: nothing, or the directory
\* of the artifact id left by a call before
FoundFs(artifact_id) ==
    {EmptyFs, [artifacts |-> (artifact_id :> {IndexHtml}), temps |-> EmptyMap]}

ExtractCalls ==
    {[f |-> "extract_multi_file_artifact", text |-> t, artifact_id |-> "eval_q1_m",
      fs |-> fs, env |-> env] :
        t \in (Texts \cup MixedTexts) \ {[prose |-> {}, blocks |-> <<>>]},
        fs \in FoundFs("eval_q1_m"),
        env \in {y \in Envs : y.proc = "timeout" /\ y.rmtree = "ok"}}

GateCalls ==
    {[f |-> "run_job", judge_model |-> m, max_concurrent |-> k,
      provider_concurrency |-> pc] :
        m \in JudgeModels \cup {<<"/", "gpt-4">>, <<"unknown", "/", "gpt-4">>,
                                <<"openai", "/", "gpt", "/", "4">>},
        k \in 1..(MaxGate + 1),
        pc \in UNION {[S -> {7, 9}] : S \in SUBSET {"openai", "unknown", ""}}}

\* two evaluations: the run each belongs to, its model and its question
Evaluations ==
    [run : RunIds,
     model_name : {<<"openai", "/", "gpt-4">>, <<"openai", "_", "gpt-4">>,
                   <<"big-pickle">>},
     question_id : {"q1", "q2"}]

IdCalls == {[f |-> "evaluate", a |-> a, b |-> b] : a \in Evaluations, b \in Evaluations}

\* the executors on a script, under every way the temp directory and the
\* interpreter can behave; a process that exits may have written to stderr or
\* not (sys.exit(1) and process.exit(1) write nothing)
ExecCalls ==
    {[f |-> f, env |-> [write |-> w, proc |-> p, stdout |-> <<"h", "i", "\n">>,
                        rmtree |-> r, stderr |-> e]] :
        f \in {"_execute_python", "_execute_javascript"},
        w \in WriteModes, r \in RmtreeModes,
        p \in ProcModes, e \in {"", "Traceback"}}

\* the artifact id evaluate derives for an evaluation
ArtifactIdOf(e) ==
    ArtifactId([id |-> e.question_id], [model_name |-> e.model_name])

InitCalls ==
    /\ jobs = EmptyMap
    /\ running_tasks = EmptyMap
    /\ tasks = <<>>
    /\ disk = EmptyMap
    /\ nextId = 1
    /\ ret = Stepped(0, "suspended", None)
    /\ limits = [jobs |-> 0, tasks |-> 0, per_job |-> 0, lists |-> {},
                 writes |-> {}, restart |-> FALSE, ticks |-> {}]
    /\ lb_in = <<>>
    /\ lb_out = None
    /\ ev_in = None
    /\ ev_fs = EmptyFs
    /\ ev_out = <<>>
    /\ fn_in \in {Some(c) : c \in ExtractCalls \cup GateCalls \cup IdCalls \cup ExecCalls}
    /\ fn_out = None
    /\ BenchIdle

\* extract_multi_file_artifact(text, artifact_id); files is what its call of
\* _extract_files_from_response returned
ExtractCall ==
    /\ fn_out = None
    /\ fn_in[1].f = "extract_multi_file_artifact"
    /\ LET c == fn_in[1]
           x == extract_multi_file_artifact(c.text, c.artifact_id, c.fs, c.env)
       IN fn_out' = Some([files |-> _extract_files_from_response(c.text),
                          ret |-> x.ret, exc |-> x.exc, fs |-> x.fs, dir |-> x.dir])
    /\ UNCHANGED <<jobvars, lb_in, lb_out, evvars, fn_in, benchvars>>

\* run_job up to asyncio.Semaphore(judge_concurrency)
GateCall ==
    /\ fn_out = None
    /\ fn_in[1].f = "run_job"
    /\ LET c == fn_in[1]
       IN fn_out' = Some(JudgeConcurrency(c.judge_model, c.max_concurrent,
                                          c.provider_concurrency))
    /\ UNCHANGED <<jobvars, lb_in, lb_out, evvars, fn_in, benchvars>>

\* the first line of the multi-file check of evaluate, in two evaluations
IdCall ==
    /\ fn_out = None
    /\ fn_in[1].f = "evaluate"
    /\ fn_out' = Some(<<ArtifactIdOf(fn_in[1].a), ArtifactIdOf(fn_in[1].b)>>)
    /\ UNCHANGED <<jobvars, lb_in, lb_out, evvars, fn_in, benchvars>>

\* _execute_python(code) or _execute_javascript(code) on an empty file system
ExecCall ==
    /\ fn_out = None
    /\ fn_in[1].f \in {"_execute_python", "_execute_javascript"}
    /\ LET c == fn_in[1]
       IN fn_out' = Some(IF c.f = "_execute_python"
                         THEN _execute_python(<<>>, EmptyFs, c.env, 1)
                         ELSE _execute_javascript(<<>>, EmptyFs, c.env, 1))
    /\ UNCHANGED <<jobvars, lb_in, lb_out, evvars, fn_in, benchvars>>

NextCalls == ExtractCall \/ GateCall \/ IdCall \/ ExecCall

SpecCalls == InitCalls /\ [][NextCalls]_vars

(***************************************************************************)
(* The web wrapper of the benchmark runner                                 *)
(* (llm-benchmark/viewer/async_benchmark_runner.py).  The run works in a   *)
(* thread of its own, cancel() is called from another thread, so the flag  *)
(* can be set between any two steps of the run.  BenchmarkRunner and the   *)
(* job manager are collaborators: the runner calls the two wrapped methods *)
(* once per question and returns a run id or raises; the job manager keeps *)
(* the status of the current job.                                          *)
(*   units  kind "generate" or "evaluate", the question, pc "new" (not     *)
(*          called yet), "working" (suspended in the original method),     *)
(*          "done", "raised"                                               *)
(* An error message is a sequence of characters.                           *)
(***************************************************************************)
MaxBenchQuestions == 2

UpperCase ==
    <<"A", "B", "C", "D", "E", "F", "G", "H", "I", "J", "K", "L", "M",
      "N", "O", "P", "Q", "R", "S", "T", "U", "V", "W", "X", "Y", "Z">>
LowerCase ==
    <<"a", "b", "c", "d", "e", "f", "g", "h", "i", "j", "k", "l", "m",
      "n", "o", "p", "q", "r", "s", "t", "u", "v", "w", "x", "y", "z">>

\* str.lower() on a message
LowerText(s) ==
    [i \in 1..Len(s) |->
        IF \E k \in 1..26 : UpperCase[k] = s[i]
        THEN LowerCase[CHOOSE k \in 1..26 : UpperCase[k] = s[i]]
        ELSE s[i]]

\* "Benchmark cancelled by user"
CancelledByUser == <<"B", "e", "n", "c", "h", "m", "a", "r", "k", " ", "c", "a", "n", "c", "e", "l", "l", "e", "d", " ", "b", "y", " ", "u", "s", "e", "r">>

\* what the upstream calls and the runner raise on their own:
\* "Connection refused", "Request was Cancelled", "Task cancelled upstream"
UpstreamErrors ==
    { <<"C", "o", "n", "n", "e", "c", "t", "i", "o", "n", " ", "r", "e", "f", "u", "s", "e", "d">>,
      <<"R", "e", "q", "u", "e", "s", "t", " ", "w", "a", "s", " ", "C", "a", "n", "c", "e", "l", "l", "e", "d">>,
      <<"T", "a", "s", "k", " ", "c", "a", "n", "c", "e", "l", "l", "e", "d", " ", "u", "p", "s", "t", "r", "e", "a", "m">> }

\* the job manager (viewer/benchmark_job_manager.py)
SetJobStatus(st) == Some([status |-> st])
is_running == current_job # None /\ current_job[1].status = "running"

\* the except clause of _run_benchmark_async: job_manager.cancel_job() when
\* the lower-cased message contains "cancelled", fail_job(error_msg) otherwise
Report(error_msg) ==
    IF IsSubstring(<<"c", "a", "n", "c", "e", "l", "l", "e", "d">>, LowerText(error_msg))
    THEN SetJobStatus("cancelled")
    ELSE SetJobStatus("failed")

\* the run ends in its except clause with exception e
Caught(e) ==
    /\ current_job' = Report(e)
    /\ runner_thread' = [pc |-> "ended", exc |-> Some(e)]

\* start_benchmark(job_id, client, config): create_job, cancel_event.clear()
\* and the start of the thread
start_benchmark ==
    /\ runner_thread.pc \in {"none", "ended"}
    /\ current_job' = SetJobStatus("pending")
    /\ cancel_event' = FALSE
    /\ runner_thread' = [pc |-> "started", exc |-> None]
    /\ units' = <<>>
    /\ UNCHANGED <<jobvars, lb_in, lb_out, evvars, fn_in, fn_out>>

\* the units of a run on n questions
NewUnits(n) ==
    [k \in 1..(2 * n) |->
        [kind |-> IF k <= n THEN "generate" ELSE "evaluate",
         question |-> IF k <= n THEN k ELSE k - n,
         pc |-> "new", exc |-> None]]

\* _run_benchmark_async from its first line to the await of run_benchmark:
\* job_manager.start_job(), the runner, the questions, the patched methods;
\* what raises on the way is caught by the except clause
RunBegin ==
    /\ runner_thread.pc = "started"
    /\ \/ \E n \in 1..MaxBenchQuestions :
             /\ current_job' = SetJobStatus("running")
             /\ runner_thread' = [pc |-> "run_benchmark", exc |-> None]
             /\ units' = NewUnits(n)
       \/ \E e \in UpstreamErrors : Caught(e) /\ UNCHANGED units
    /\ UNCHANGED <<cancel_event, jobvars, lb_in, lb_out, evvars, fn_in, fn_out>>

\* the runner may call the wrapped method of unit u: a response is evaluated
\* after it was generated
Callable(u) ==
    /\ units[u].pc = "new"
    /\ units[u].kind = "evaluate" =>
          \E g \in 1..Len(units) :
              /\ units[g].kind = "generate"
              /\ units[g].question = units[u].question
              /\ units[g].pc = "done"

\* tracked_generate / tracked_evaluate from the call to the await of the
\* original method: the log lines, then the work starts
UnitStart(u) ==
    /\ runner_thread.pc = "run_benchmark"
    /\ u \in 1..Len(units)
    /\ Callable(u)
    /\ units' = [units EXCEPT ![u].pc = "working"]
    /\ UNCHANGED <<cancel_event, current_job, runner_thread, jobvars, lb_in,
                   lb_out, evvars, fn_in, fn_out>>

\* the original method returns or raises; after the counters and the log
\* lines the flag is looked at
UnitFinish(u) ==
    /\ runner_thread.pc = "run_benchmark"
    /\ u \in 1..Len(units)
    /\ units[u].pc = "working"
    /\ \/ units' = [units EXCEPT ![u] =
                       IF cancel_event
                       THEN [@ EXCEPT !.pc = "raised", !.exc = Some(CancelledByUser)]
                       ELSE [@ EXCEPT !.pc = "done"]]
       \/ \E e \in UpstreamErrors :
             units' = [units EXCEPT ![u] = [@ EXCEPT !.pc = "raised", !.exc = Some(e)]]
    /\ UNCHANGED <<cancel_event, current_job, runner_thread, jobvars, lb_in,
                   lb_out, evvars, fn_in, fn_out>>

\* run_benchmark returns with every unit over (an exception of a unit the
\* runner kept to itself), and the job is completed; or it raises what a unit
\* raised, or an error of its own
RunEnd ==
    /\ runner_thread.pc = "run_benchmark"
    /\ \/ /\ \A u \in 1..Len(units) : units[u].pc \in {"done", "raised"}
          /\ current_job' = SetJobStatus("completed")
          /\ runner_thread' = [pc |-> "ended", exc |-> None]
       \/ \E u \in 1..Len(units) :
             units[u].pc = "raised" /\ Caught(units[u].exc[1])
       \/ \E e \in UpstreamErrors : Caught(e)
    /\ UNCHANGED <<cancel_event, units, jobvars, lb_in, lb_out, evvars, fn_in, fn_out>>

\* cancel(): a ValueError when no benchmark is running
cancel ==
    /\ is_running
    /\ cancel_event' = TRUE
    /\ UNCHANGED <<current_job, runner_thread, units, jobvars, lb_in, lb_out,
                   evvars, fn_in, fn_out>>

InitBench ==
    /\ jobs = EmptyMap
    /\ running_tasks = EmptyMap
    /\ tasks = <<>>
    /\ disk = EmptyMap
    /\ nextId = 1
    /\ ret = Stepped(0, "suspended", None)
    /\ limits = [jobs |-> 0, tasks |-> 0, per_job |-> 0, lists |-> {},
                 writes |-> {}, restart |-> FALSE, ticks |-> {}]
    /\ lb_in = <<>>
    /\ lb_out = None
    /\ ev_in = None
    /\ ev_fs = EmptyFs
    /\ ev_out = <<>>
    /\ fn_in = None
    /\ fn_out = None
    /\ BenchIdle

NextBench ==
    \/ start_benchmark
    \/ RunBegin
    \/ \E u \in 1..(2 * MaxBenchQuestions) : UnitStart(u)
    \/ \E u \in 1..(2 * MaxBenchQuestions) : UnitFinish(u)
    \/ RunEnd
    \/ cancel

SpecBench == InitBench /\ [][NextBench]_vars

(***************************************************************************)
(* The sequential run_job (llm-benchmark/src/job_runner.py) next to the    *)
(* concurrent one (src/job_runner.py), on the same job and the same        *)
(* answers of the collaborators.  For the i-th question id the             *)
(* collaborators answer "none" (no question or no response), "raises" (a   *)
(* lookup or the judge raises, or the result file cannot be opened),       *)
(* "dump_fails" (json.dump stops part-way) or "ok".  order is the order in *)
(* which the per-question coroutines of the concurrent run come to their   *)
(* end.                                                                    *)
(***************************************************************************)
QuestionOutcomes == {"ok", "none", "raises", "dump_fails"}

RunLists == UNION {[1..n -> {"q1", "q2"}] : n \in 0..MaxQuestions}

\* the orders in which n coroutines behind a gate of k permits can end: the
\* waiters are served first come first served, so the i-th has started only
\* when i - k others have ended
Schedules(n, k) ==
    {p \in [1..n -> 1..n] :
        /\ \A a \in 1..n, b \in 1..n : a # b => p[a] # p[b]
        /\ \A pos \in 1..n : p[pos] <= k + pos - 1}

RefineCalls ==
    UNION {{[f |-> "run_job", question_ids |-> x[1], outcomes |-> os, k |-> x[2],
             order |-> p, o_pre |-> o_pre, o_lb |-> o_lb] :
               os \in [1..Len(x[1]) -> QuestionOutcomes],
               p \in Schedules(Len(x[1]), x[2]),
               o_pre \in {"ok", "open_fails"},
               o_lb \in {"ok", "open_fails"}} :
             x \in RunLists \X (1..(MaxGate + 1))}

\* a job just created, its directory not yet made
FreshWorld(qs) ==
    [job |-> NewJob(qs), exists |-> FALSE, files |-> EmptyMap,
     exc |-> None, caught |-> None]

\* the sequential run_job from the try to the loop over the question ids
SeqPrefix(w, j, o) ==
    LET w1 == SetStatus(w, "running")
        w2 == [w1 EXCEPT !.exists = TRUE, !.job.results_path = Some(j)]
    IN _save_job_metadata(w2, o)

\* all_results[question_id] = results
SeqPut(all_results, q) ==
    LET hits == {n \in 1..Len(all_results) : all_results[n].qid = q}
        item == [qid |-> q, results |-> JudgeResult(q)]
    IN IF hits = {} THEN Append(all_results, item)
       ELSE [all_results EXCEPT ![CHOOSE n \in hits : TRUE] = item]

\* the loop of the sequential run_job from the i-th question id onwards: the
\* progress, the lookups, the judge call, the result file; except Exception
\* goes on to the next question
RECURSIVE SeqLoop(_, _, _, _)
SeqLoop(w, all_results, outs, i) ==
    LET qs == w.job.question_ids
    IN IF i > Len(qs) THEN [w |-> w, all_results |-> all_results]
       ELSE LET q  == qs[i]
                w1 == [w EXCEPT !.job.progress.current = i - 1,
                                !.job.progress.current_question = q]
                w2 == IF outs[i] \in {"ok", "dump_fails"}
                      THEN [w1 EXCEPT !.files = WriteFile(@, q, QuestionFile(q), outs[i])]
                      ELSE w1
            IN SeqLoop(w2, IF outs[i] = "ok" THEN SeqPut(all_results, q) ELSE all_results,
                       outs, i + 1)

\* the sequential run_job after the loop: the leaderboard, the completion
SeqSuffix(w, all_results, o_lb, o_meta) ==
    LET leaderboard == _calculate_leaderboard(all_results)
        w2 == [w EXCEPT !.files = WriteFile(@, "leaderboard.json", leaderboard, o_lb)]
        w3 == [SetStatus(w2, "completed") EXCEPT
                  !.job.progress.current = Len(w.job.question_ids)]
    IN IF o_lb # "ok" THEN [w2 EXCEPT !.exc = Some("leaderboard.json")]
       ELSE _save_job_metadata(w3, o_meta)

\* the except clause of the sequential run_job
SeqExceptHandler(w, o) ==
    IF w.exc = None THEN w
    ELSE _save_job_metadata(
             [SetStatus(w, "failed") EXCEPT !.job.progress.error = w.exc,
                                            !.caught = w.exc,
                                            !.exc = None], o)

\* the sequential run_job on call c
SequentialRunJob(c) ==
    LET p == SeqPrefix(FreshWorld(c.question_ids), 1, c.o_pre)
        l == SeqLoop(p, <<>>, c.outcomes, 1)
    IN IF p.exc # None THEN SeqExceptHandler(p, "ok")
       ELSE SeqExceptHandler(SeqSuffix(l.w, l.all_results, c.o_lb, "ok"), "ok")

\* the result files the per-question coroutines leave, ending in the order
\* given
RECURSIVE ConcFiles(_, _, _, _, _)
ConcFiles(files, qs, outs, order, pos) ==
    IF pos > Len(order) THEN files
    ELSE LET i == order[pos]
         IN ConcFiles(IF outs[i] \in {"ok", "dump_fails"}
                      THEN WriteFile(files, qs[i], QuestionFile(qs[i]), outs[i])
                      ELSE files,
                      qs, outs, order, pos + 1)

\* what gather collects for the i-th question
ResOf(outcome) ==
    CASE outcome = "ok" -> "ok"
      [] outcome = "none" -> "none"
      [] OTHER -> "exc"

\* the concurrent run_job on call c, uncancelled
ConcurrentRunJob(c) ==
    LET qs == c.question_ids
        p == RunPrefix(FreshWorld(qs), 1, TRUE, c.o_pre, <<"big-pickle">>, c.k)
        g == [p EXCEPT !.files = ConcFiles(@, qs, c.outcomes, c.order, 1)]
        children == [i \in 1..Len(qs) |-> [pc |-> "done", res |-> ResOf(c.outcomes[i])]]
    IN IF p.exc # None THEN ExceptHandler(p, "ok")
       ELSE ExceptHandler(RunSuffix(g, children, c.o_lb, "ok"), "ok")

InitRefine ==
    /\ jobs = EmptyMap
    /\ running_tasks = EmptyMap
    /\ tasks = <<>>
    /\ disk = EmptyMap
    /\ nextId = 1
    /\ ret = Stepped(0, "suspended", None)
    /\ limits = [jobs |-> 0, tasks |-> 0, per_job |-> 0, lists |-> {},
                 writes |-> {}, restart |-> FALSE, ticks |-> {}]
    /\ lb_in = <<>>
    /\ lb_out = None
    /\ ev_in = None
    /\ ev_fs = EmptyFs
    /\ ev_out = <<>>
    /\ fn_in \in {Some(c) : c \in RefineCalls}
    /\ fn_out = [seq |-> None, conc |-> None]
    /\ BenchIdle

\* the sequential runner runs the job
SequentialRun ==
    /\ fn_out.seq = None
    /\ fn_out' = [fn_out EXCEPT !.seq = Some(SequentialRunJob(fn_in[1]))]
    /\ UNCHANGED <<jobvars, lb_in, lb_out, evvars, fn_in, benchvars>>

\* the concurrent runner runs the same job
ConcurrentRun ==
    /\ fn_out.conc = None
    /\ fn_out' = [fn_out EXCEPT !.conc = Some(ConcurrentRunJob(fn_in[1]))]
    /\ UNCHANGED <<jobvars, lb_in, lb_out, evvars, fn_in, benchvars>>

NextRefine == SequentialRun \/ ConcurrentRun

SpecRefine == InitRefine /\ [][NextRefine]_vars

(***************************************************************************)
(* Leaderboard properties.                                                 *)
(***************************************************************************)
FracEq(a, b) == a.num * b.den = b.num * a.den

\* C9: every leaderboard entry has passed_count <= total_questions and
\* pass_rate = passed_count / total_questions, neither quotient of an entry
\* is a division by zero, and the entries are in non-increasing order of
\* average score.
C9_LeaderboardEntries ==
    lb_out # None =>
        LET lb == lb_out[1]
        IN /\ \A i \in 1..Len(lb) :
                /\ lb[i].passed_count <= lb[i].total_questions
                /\ lb[i].total_questions > 0
                /\ lb[i].pass_rate # ZeroDivisionError
                /\ lb[i].average_score # ZeroDivisionError
                /\ lb[i].pass_rate.num * lb[i].total_questions
                      = lb[i].passed_count * lb[i].pass_rate.den
           /\ \A i \in 1..Len(lb), k \in 1..Len(lb) :
                i < k => ~FracLess(lb[i].average_score, lb[k].average_score)

\* two models, the better one seen last, and one that passed only part of
\* its questions
C9_Witness ==
    /\ lb_out # None
    /\ Len(lb_out[1]) = 2
    /\ FracLess(lb_out[1][2].average_score, lb_out[1][1].average_score)
    /\ lb_out[1][1].model_name = "b"
    /\ Len(lb_in) = 2
    /\ Len(lb_in[1].results) = 2
    /\ lb_in[1].results[1].model = "a"
    /\ \E i \in 1..2 : /\ 0 < lb_out[1][i].passed_count
                       /\ lb_out[1][i].passed_count < lb_out[1][i].total_questions

\* the model names in the order the grouping loop meets them
RECURSIVE SeenOrder(_)
SeenOrder(all_results) ==
    IF all_results = <<>> THEN <<>>
    ELSE [i \in 1..Len(Head(all_results).results) |->
             Head(all_results).results[i].model] \o SeenOrder(Tail(all_results))

FirstSeen(all_results, m) ==
    LET seen == SeenOrder(all_results)
    IN CHOOSE i \in 1..Len(seen) :
          /\ seen[i] = m
          /\ \A k \in 1..(i - 1) : seen[k] # m

\* C10: two models of equal average score stand in the leaderboard in the
\* order in which the grouping first met them (question order, then model
\* order within a question).
C10_TiesKeepFirstSeenOrder ==
    lb_out # None =>
        LET lb == lb_out[1]
        IN \A i \in 1..Len(lb), k \in 1..Len(lb) :
              (i < k /\ FracEq(lb[i].average_score, lb[k].average_score))
                 => FirstSeen(lb_in, lb[i].model_name) < FirstSeen(lb_in, lb[k].model_name)

\* a tie between "b", met in the first question, and "a", met in the second
C10_Witness ==
    /\ lb_out # None
    /\ Len(lb_out[1]) = 2
    /\ Len(lb_in) = 2
    /\ FracEq(lb_out[1][1].average_score, lb_out[1][2].average_score)
    /\ Len(lb_in[1].results) = 1
    /\ lb_in[1].results[1].model = "b"
    /\ lb_out[1][1].model_name = "b"


(***************************************************************************)
(* Orchestrator properties.                                                *)
(***************************************************************************)
InFlight(t) == {i \in 1..Len(tasks[t].children) : tasks[t].children[i].pc = "eval"}

\* C2: in every reachable state, the question evaluations of a run that
\* have acquired the gate and not yet released it number at most the size
\* the gate of that run was built with.
C2_GateBound ==
    \A t \in TaskIds : Cardinality(InFlight(t)) <= tasks[t].gate

\* a gate of one permit that is taken while another question waits for it
C2_Witness ==
    \E t \in TaskIds :
        /\ tasks[t].gate = 1
        /\ Cardinality(InFlight(t)) = 1
        /\ \E i \in 1..Len(tasks[t].children) : tasks[t].children[i].pc = "wait"

\* C6: when a step of the top-level body of run_job raises, the run ends
\* with the job's status failed and progress.error holding the message; it
\* does not end with status completed.
C6_BodyErrorFailsJob ==
    (ret.op = "step" /\ ret.val # None) =>
        /\ ret.job \in DOMAIN jobs
        /\ jobs[ret.job].status = "failed"
        /\ jobs[ret.job].progress.status = "failed"
        /\ jobs[ret.job].progress.error = ret.val

\* the leaderboard write failed after every question had been evaluated
C6_Witness ==
    /\ ret.op = "step"
    /\ ret.val = Some("leaderboard.json")
    /\ jobs[ret.job].status = "failed"
    /\ jobs[ret.job].progress.current = 1

Terminal == {"completed", "failed", "cancelled"}

\* the steps a status may take between two states; one step of the event
\* loop runs run_job from its first line, so it may pass through running
LegalStatusStep(a, b) ==
    \/ a = b
    \/ a = "pending" /\ b \in {"running"} \cup Terminal
    \/ a = "running" /\ b \in Terminal

\* C1: over every step, the status of every job of the registry stays as it
\* is or moves forward along pending -> running -> {completed, failed,
\* cancelled}; a status that is completed, failed or cancelled never changes.
C1_StatusOnlyMovesForward ==
    [][\A j \in DOMAIN jobs \cap DOMAIN jobs' :
          LegalStatusStep(jobs[j].status, jobs'[j].status)]_vars

\* C3: a call of cancel_job on a running job returns true, asks for the
\* cancellation of the job's registered task and leaves the status cancelled;
\* on an unknown or not running job it returns false and leaves the
\* registries, the tasks and the disk as they are.
C3_CancelContract ==
    [][\A j \in JobIds :
          cancel_job(j) =>
              IF j \in DOMAIN jobs /\ jobs[j].status = "running"
              THEN /\ ret'.out = "true"
                   /\ jobs'[j].status = "cancelled"
                   /\ jobs'[j].progress.status = "cancelled"
                   /\ j \in DOMAIN running_tasks
                   /\ \/ tasks'[running_tasks[j]].cancel
                      \/ tasks[running_tasks[j]].state = "done"
              ELSE /\ ret'.out = "false"
                   /\ UNCHANGED <<jobs, running_tasks, tasks, disk>>]_vars

\* the results the complete question files of a directory hold, in the order
\* of the job's question ids
RECURSIVE Persisted(_, _, _)
Persisted(files, qs, i) ==
    IF i > Len(qs) THEN <<>>
    ELSE (IF /\ qs[i] \in QuestionFileNames(files)
             /\ \A k \in 1..(i - 1) : qs[k] # qs[i]
          THEN <<[qid |-> qs[i], results |-> files[qs[i]][1].results]>>
          ELSE <<>>) \o Persisted(files, qs, i + 1)

\* cancel_job on job j has returned true, or the cancelled run of j has ended
JustCancelled(j) ==
    /\ ret.job = j
    /\ \/ ret.op = "cancel" /\ ret.out = "true"
       \/ ret.op = "step" /\ ret.out = "cancelled"

\* C4: once a running job has been cancelled while fewer complete question
\* files than questions were in its directory, its status is cancelled and
\* load_job_results returns those files as by_question and the leaderboard
\* calculated from exactly them.
C4_CancelKeepsPartialResults ==
    \A j \in DOMAIN jobs :
        (/\ JustCancelled(j)
         /\ j \in DOMAIN disk
         /\ ~ReadRaises(disk[j])
         /\ Cardinality(QuestionFileNames(disk[j])) < Len(jobs[j].question_ids)) =>
            /\ jobs[j].status = "cancelled"
            /\ load_job_results(j).out = "value"
            /\ LET view == load_job_results(j).val[1]
               IN /\ DOMAIN view.by_question = QuestionFileNames(disk[j])
                  /\ view.leaderboard =
                        _calculate_leaderboard(
                            Persisted(disk[j], jobs[j].question_ids, 1))

\* C5: a question whose evaluation ends without a result (it raised, or the
\* question or every response was missing) leaves no file behind in that
\* step, and a run whose top-level body raised nothing ends completed with
\* the leaderboard of exactly the questions that returned a result.
C5_QuestionFailureIsASkip ==
    [][\A t \in TaskIds :
          /\ \A i \in 1..Len(tasks[t].children) :
                (QuestionFinish(t, i) /\ tasks'[t].children[i].res # "ok")
                    => disk' = disk
          /\ (RunFinish(t) /\ ret'.val = None) =>
                LET j == tasks[t].job
                IN /\ jobs'[j].status = "completed"
                   /\ ret'.out = "returned"
                   /\ "leaderboard.json" \in DOMAIN disk'[j]
                   /\ disk'[j]["leaderboard.json"] =
                         Some(_calculate_leaderboard(
                                 AllResults(jobs[j].question_ids,
                                            tasks[t].children)))]_vars

\* one step of the event loop on the run_job coroutine t or one of its children
StepOf(t) ==
    \/ RunStart(t)
    \/ RunFinish(t)
    \/ RunCancelled(t)
    \/ \E i \in 1..MaxQuestions :
          QuestionStart(t, i) \/ QuestionFinish(t, i) \/ QuestionCancelled(t, i)

\* C7: no step of the run of a job of the registry ends with an exception
\* leaving run_job, and it leaves the job objects and the directories of all
\* other jobs as they are.
C7_FailureStaysInsideTheRun ==
    [][\A t \in TaskIds :
          (StepOf(t) /\ tasks[t].job \in DOMAIN jobs) =>
              /\ ret'.out # "raised"
              /\ \A j \in (DOMAIN jobs \cup DOMAIN disk) \ {tasks[t].job} :
                    /\ j \in DOMAIN jobs => jobs'[j] = jobs[j]
                    /\ j \in DOMAIN disk => disk'[j] = disk[j]]_vars

\* a directory every file of which is complete, the metadata among them
Complete(files) ==
    /\ "metadata.json" \in DOMAIN files
    /\ \A n \in DOMAIN files : files[n] # None

\* C8: for every complete results directory on disk, load_job_results
\* returns the metadata, the leaderboard and the question results read from
\* that directory, whatever the registry holds.
C8_LoadReadsTheDirectory ==
    \A j \in DOMAIN disk :
        Complete(disk[j]) =>
            /\ load_job_results(j).out = "value"
            /\ load_job_results(j).val[1] =
                   [job_id      |-> j,
                    metadata    |-> disk[j]["metadata.json"][1],
                    leaderboard |-> ReadLeaderboard(disk[j]),
                    by_question |-> ReadByQuestion(disk[j])]

(***************************************************************************)
(* Evaluator properties.                                                   *)
(***************************************************************************)
\* C11: the temp directory an execution of Python or JavaScript code made
\* does not exist once the evaluation that ran it has returned.
C11_TempDirRemoved ==
    \A n \in 1..Len(ev_out) :
        ev_out[n].temp_dir # None => ev_out[n].temp_dir[1] \notin DOMAIN ev_fs.temps

\* C12: every call of evaluate returns an Evaluation; no exception of the
\* extractor, of the scoring or of the sandbox leaves it.
C12_EvaluateNeverRaises ==
    \A n \in 1..Len(ev_out) : ev_out[n].exc = None

\* C13: when the last call of evaluate made or wrote the directory of a
\* multi-file artifact, that directory does not exist after the call.
C13_ArtifactDirRemoved ==
    (ev_out # <<>> /\ ev_out[Len(ev_out)].artifact_dir # None) =>
        ev_out[Len(ev_out)].artifact_dir[1] \notin DOMAIN ev_fs.artifacts

\* C14: on the single-blob execution path the score is 0 (not passed) iff
\* the execution failed, 100 (passed) iff it succeeded and no hint is declared
\* or the hint is a substring of the captured output, 50 (not passed) iff it
\* succeeded and a declared hint is no substring of the output; there is no
\* other score.
C14_SingleBlobScore ==
    \A n \in 1..Len(ev_out) :
        (ev_out[n].exc = None /\ ev_out[n].details # None) =>
            LET e == ev_out[n]
                success == e.details[1].execution_success
                hint == ev_in[1].question.expected_output
                declared == hint # None /\ hint[1] # <<>>
                matches == declared /\ IsSubstring(hint[1], e.details[1].output)
            IN /\ (e.score = 0 /\ ~e.passed) <=> ~success
               /\ (e.score = 100 /\ e.passed) <=> (success /\ (~declared \/ matches))
               /\ (e.score = 50 /\ ~e.passed) <=> (success /\ declared /\ ~matches)
               /\ e.score \in {0, 50, 100}

\* the score the four components of the structural scoring add up to for
\* the files of a text and a list of expected files
StructuralScore(files, expected) ==
    LET entry   == _determine_entry_point(files)
        content == files[CHOOSE n \in 1..Len(files) : files[n].name = entry].content
        css_ok  == \A f \in Keys(files) : f.ext = "css" => f \in content.refs
        js_ok   == \A f \in Keys(files) : f.ext \in {"js", "jsx"} => f \in content.refs
        missing == Cardinality({i \in 1..Len(expected) : expected[i] \notin Keys(files)})
    IN (IF entry.ext = "html" THEN 30 ELSE 0)
       + (IF css_ok /\ js_ok THEN 30 ELSE IF css_ok \/ js_ok THEN 15 ELSE 0)
       + (IF missing = 0 THEN 20 ELSE IF missing < Len(expected) THEN 10 ELSE 0)
       + (IF Len(files) \in 2..10 THEN 20 ELSE IF Len(files) > 10 THEN 10 ELSE 0)

\* C15: the score of every structural evaluation of a multi-file artifact is
\* the sum of the four components (30 for an .html entry point; 30 or 15 for
\* the linking; 20 or 10 for the expected files; 20 or 10 for the file
\* count), and passed holds exactly when that sum is at least 70.
C15_StructuralScore ==
    \A n \in 1..Len(ev_out) :
        ev_out[n].evaluation_type = "code_execution_multi_file" =>
            LET files == _extract_files_from_response(ev_in[1].response.response_text[1])
                total == StructuralScore(files,
                             ev_in[1].question.metadata.expected_files.items)
            IN /\ ev_out[n].exc = None
               /\ ev_out[n].score = total
               /\ ev_out[n].passed <=> (total >= 70)

\* index.html linking styles.css and app.js, three files, no expected files:
\* the score is 100 and the evaluation passes
C15_Witness ==
    /\ ev_out # <<>>
    /\ ev_out[1].evaluation_type = "code_execution_multi_file"
    /\ ev_out[1].score = 100
    /\ ev_out[1].passed
    /\ ev_out[1].score_components = <<30, 30, 20, 20>>
    /\ LET files == _extract_files_from_response(ev_in[1].response.response_text[1])
       IN /\ Keys(files) = {IndexHtml, StylesCss, AppJs}
          /\ Len(files) = 3
          /\ files[1].content.refs = {StylesCss, AppJs}
    /\ ev_in[1].question.metadata.expected_files.items = <<>>

\* C16: for a response whose only fenced block carries a tag that is none of
\* the supported languages and whose content is not HTML, evaluate returns
\* score 0, passed false and the reasoning "Unsupported language: <tag>".
C16_UnsupportedLanguage ==
    \A n \in 1..Len(ev_out) :
        LET r == ev_in[1].response
            blocks == r.response_text[1].blocks
        IN (/\ r.error = None
            /\ r.response_text # None
            /\ Len(blocks) = 1
            /\ blocks[1].lang \notin {"", "python", "py", "javascript", "js", "jsx",
                                      "html", "htm", "css", "typescript", "ts",
                                      "tsx", "json"}
            /\ blocks[1].code # Blank
            /\ ~OccursLower("<html", blocks[1].code)
            /\ ~Occurs("<!DOCTYPE", blocks[1].code)) =>
               /\ ev_out[n].exc = None
               /\ ev_out[n].score = 0
               /\ ~ev_out[n].passed
               /\ ev_out[n].reasoning = <<"Unsupported language: ", blocks[1].lang>>

\* the markers the whole-text sniffing of the single-blob extraction knows
SniffMarkers ==
    {"<html", "<html>", "<!doctype html", "<!DOCTYPE", "def ", "import ", "class ",
     "function ", "const ", "let ", "var "}

\* a non-empty text without a fenced block and without a sniffable marker
Unsniffable(response) ==
    /\ response.error = None
    /\ response.response_text # None
    /\ response.response_text[1].blocks = <<>>
    /\ response.response_text[1].prose # {}
    /\ response.response_text[1].prose \cap SniffMarkers = {}

\* C17: for a non-empty text without a fenced block and without a sniffable
\* marker the single-blob extraction returns no code, evaluate starts no
\* subprocess and makes no directory, and its Evaluation has score 0 and is
\* not passed.
C17_NoCodeFound ==
    (ev_in # None /\ Unsniffable(ev_in[1].response)) =>
        /\ ~_extract_code(ev_in[1].response.response_text[1]).found
        /\ ev_fs = EmptyFs
        /\ \A n \in 1..Len(ev_out) :
              /\ ev_out[n].exc = None
              /\ ev_out[n].score = 0
              /\ ~ev_out[n].passed
              /\ ~ev_out[n].subprocess
              /\ ev_out[n].temp_dir = None
              /\ ev_out[n].artifact_dir = None

C17_Witness ==
    /\ Unsniffable(ev_in[1].response)
    /\ ev_out # <<>>
    /\ ev_out[1].reasoning[1] = "No code block found in response. "

\* C18: every evaluation of the pair after the first, on the file system the
\* evaluations before it left, ends as the first did: with the same
\* exception or with the same score and the same passed flag.
C18_Idempotent ==
    \A n \in 1..Len(ev_out) :
        /\ ev_out[n].exc = ev_out[1].exc
        /\ ev_out[n].score = ev_out[1].score
        /\ ev_out[n].passed = ev_out[1].passed

\* the second evaluation found the artifact directory of the first
C18_Witness ==
    /\ Len(ev_out) = 2
    /\ ev_out[1].exc = None
    /\ ev_out[1].artifact_dir # None
    /\ ev_out[1].artifact_dir[1] \in DOMAIN ev_fs.artifacts
    /\ ev_out[2].score = ev_out[1].score


(***************************************************************************)
(* Job registry properties.                                                *)
(***************************************************************************)
\* C19: every create_job registers exactly one new job, pending, with
\* progress current 0 and total the number of question ids, under an id no
\* job of the registry has (also when the clock reads what it read at the
\* create before); it leaves every job there was unchanged, writes nothing
\* to disk and starts no task.
C19_CreateRegistersOneNewJob ==
    [][\A qs \in QuestionLists :
          create_job(qs) =>
              /\ nextId \notin DOMAIN jobs
              /\ DOMAIN jobs' = DOMAIN jobs \cup {nextId}
              /\ \A k \in DOMAIN jobs : jobs'[k] = jobs[k]
              /\ jobs'[nextId].status = "pending"
              /\ jobs'[nextId].progress.current = 0
              /\ jobs'[nextId].progress.total = Len(qs)
              /\ disk' = disk
              /\ tasks' = tasks
              /\ running_tasks' = running_tasks]_vars

\* C20: when start_job returns for a known pending job, the job is running
\* and a task is registered for it; for an unknown id it registers no job
\* and no task.
C20_StartContract ==
    [][\A j \in JobIds :
          start_job(j) =>
              IF j \in DOMAIN jobs
              THEN jobs[j].status = "pending" =>
                      /\ jobs'[j].status = "running"
                      /\ j \in DOMAIN running_tasks'
              ELSE /\ jobs' = jobs
                   /\ tasks' = tasks
                   /\ running_tasks' = running_tasks]_vars


(***************************************************************************)
(* Persistence properties of a run.                                        *)
(***************************************************************************)
\* C21: whenever no step is in progress, the metadata.json of every job that
\* has left pending holds the status the job has in memory.
C21_MetadataHoldsStatus ==
    \A j \in DOMAIN jobs :
        jobs[j].status # "pending" =>
            /\ j \in DOMAIN disk
            /\ "metadata.json" \in DOMAIN disk[j]
            /\ disk[j]["metadata.json"] # None
            /\ disk[j]["metadata.json"][1].status = jobs[j].status

\* C27: at every instant every <question_id>.json of every results directory
\* is either absent or holds the complete result of that question.
C27_QuestionFilesComplete ==
    \A j \in DOMAIN disk :
        \A n \in QuestionFileNames(disk[j]) :
            /\ disk[j][n] # None
            /\ disk[j][n][1] = QuestionFile(n)

\* the step writes the leaderboard.json of job j
LeaderboardWritten(j) ==
    /\ j \in DOMAIN disk'
    /\ "leaderboard.json" \in DOMAIN disk'[j]
    /\ \/ j \notin DOMAIN disk
       \/ "leaderboard.json" \notin DOMAIN disk[j]
       \/ disk'[j]["leaderboard.json"] # disk[j]["leaderboard.json"]

\* the run t of job j ends in the step, every one of its question tasks
\* having resolved before
EndsResolved(t, j) ==
    /\ tasks[t].job = j
    /\ tasks[t].state # "done"
    /\ tasks'[t].state = "done"
    /\ \/ tasks[t].state = "created" /\ jobs[j].question_ids = <<>>
       \/ /\ tasks[t].state = "gather"
          /\ Len(tasks[t].children) = Len(jobs[j].question_ids)
          /\ \A i \in 1..Len(tasks[t].children) :
                /\ tasks[t].children[i].pc = "done"
                /\ tasks[t].children[i].res \in {"ok", "none", "exc"}

HasLeaderboard(d, j) ==
    /\ j \in DOMAIN d
    /\ "leaderboard.json" \in DOMAIN d[j]
    /\ d[j]["leaderboard.json"] # None

\* C29: leaderboard.json is written only by a run all of whose question
\* tasks have resolved; a status becomes completed only in a step that has
\* written the leaderboard; and a completed job has a leaderboard on disk.
C29_LeaderboardBeforeCompleted ==
    /\ [][\A j \in JobIds :
             /\ LeaderboardWritten(j) => \E t \in TaskIds : EndsResolved(t, j)
             /\ (/\ j \in DOMAIN jobs'
                 /\ jobs'[j].status = "completed"
                 /\ (j \notin DOMAIN jobs \/ jobs[j].status # "completed"))
                    => HasLeaderboard(disk', j)]_vars
    /\ [](\A j \in DOMAIN jobs :
             jobs[j].status = "completed" => HasLeaderboard(disk, j))

\* a job of two questions has completed with its leaderboard on disk
C29_Witness ==
    \E j \in DOMAIN jobs :
        /\ jobs[j].status = "completed"
        /\ Len(jobs[j].question_ids) = 2
        /\ HasLeaderboard(disk, j)
        /\ disk[j]["leaderboard.json"][1] # <<>>

\* the results a run collected, by question id in the order of the job's
\* question list: the questions whose own task returned a result
RECURSIVE ByQuestionId(_, _, _)
ByQuestionId(qs, children, i) ==
    IF i > Len(qs) THEN <<>>
    ELSE (IF /\ children[i].res = "ok"
             /\ \A k \in 1..(i - 1) : ~(qs[k] = qs[i] /\ children[k].res = "ok")
          THEN <<[qid |-> qs[i], results |-> JudgeResult(qs[i])]>>
          ELSE <<>>) \o ByQuestionId(qs, children, i + 1)

\* C30: in whatever order the question evaluations of a run completed, the
\* run that writes its leaderboard writes the one calculated from the
\* results by question id in the order of the question list; every question
\* whose task returned a result has its file; and every complete question
\* file holds the id in its name and the result of that question.
C30_OrderIndependent ==
    [][\A t \in TaskIds :
          LET j == tasks[t].job
          IN (RunFinish(t) /\ LeaderboardWritten(j) /\ HasLeaderboard(disk', j)) =>
                /\ disk'[j]["leaderboard.json"][1] =
                      _calculate_leaderboard(
                          ByQuestionId(jobs[j].question_ids, tasks[t].children, 1))
                /\ \A i \in 1..Len(tasks[t].children) :
                      tasks[t].children[i].res = "ok" =>
                          jobs[j].question_ids[i] \in DOMAIN disk'[j]
                /\ \A n \in QuestionFileNames(disk'[j]) :
                      disk'[j][n] # None =>
                          /\ disk'[j][n][1].question_id = n
                          /\ disk'[j][n][1].results = JudgeResult(n)]_vars

\* the second question of a run has completed and left its file while the
\* first one has not completed yet
C30_Witness ==
    \E t \in TaskIds :
        /\ tasks[t].state = "gather"
        /\ Len(tasks[t].children) = 2
        /\ tasks[t].children[2] = [pc |-> "done", res |-> "ok"]
        /\ tasks[t].children[1].pc # "done"
        /\ tasks[t].job \in DOMAIN disk
        /\ jobs[tasks[t].job].question_ids[2] \in DOMAIN disk[tasks[t].job]
        /\ disk[tasks[t].job][jobs[tasks[t].job].question_ids[2]] # None


(***************************************************************************)
(* Extractor, gate size and artifact id properties (single calls).         *)
(***************************************************************************)
Extracted == fn_out # None /\ fn_in[1].f = "extract_multi_file_artifact"

\* the files the hinting convention c finds in a text on its own
FoundBy(text, c) == PutHinted(<<>>, text.blocks, c, 1)

\* C22: when some hinting convention finds a file, the extracted files are
\* exactly the files of the first convention, in the order 1 to 4, that
\* finds any: a later convention adds nothing and overwrites nothing.
C22_FirstConventionWins ==
    Extracted =>
        \A c \in 1..4 :
            (/\ FoundBy(fn_in[1].text, c) # <<>>
             /\ \A b \in 1..(c - 1) : FoundBy(fn_in[1].text, b) = <<>>) =>
                fn_out[1].files = FoundBy(fn_in[1].text, c)

\* a fenced block the inference fallback gives a file name to
Classified(block) ==
    \/ lower(block.lang) \in {"html", "htm", "css", "javascript", "js", "jsx",
                              "typescript", "ts", "tsx", "json"}
    \/ OccursLower("<html", block.code)
    \/ Occurs("<!DOCTYPE", block.code)

\* C23: when no hinting convention finds a file, the inferred files are as
\* many as the classified blocks of the text: every classified block has a
\* file name of its own.
C23_InferredNamesDistinct ==
    (Extracted /\ \A c \in 1..4 : FoundBy(fn_in[1].text, c) = <<>>) =>
        Len(fn_out[1].files) =
            Cardinality({i \in 1..Len(fn_in[1].text.blocks) :
                            Classified(fn_in[1].text.blocks[i])})

\* module-style import or require syntax in a file's content
ImportSyntax == {"import ", "require("}

\* more than one file, or a file with import/require syntax
ClassifiedMultiFile(files) ==
    \/ Len(files) > 1
    \/ \E n \in 1..Len(files) : files[n].content.marks \cap ImportSyntax # {}

\* C24: extract_multi_file_artifact makes or writes the artifact directory
\* exactly when there is more than one extracted file or a file with
\* import/require syntax, and then returns a multi_file artifact; otherwise
\* it leaves the file system as it found it and returns None (no file) or
\* a single_file artifact holding the content.
C24_DirectoryOnlyForMultiFile ==
    Extracted =>
        LET c == fn_in[1]
            o == fn_out[1]
        IN IF ClassifiedMultiFile(o.files)
           THEN o.exc = None =>
                   /\ o.ret # None
                   /\ o.ret[1].type = "multi_file"
                   /\ c.artifact_id \in DOMAIN o.fs.artifacts
                   /\ Keys(o.files) \subseteq o.fs.artifacts[c.artifact_id]
           ELSE /\ o.exc = None
                /\ o.fs = c.fs
                /\ o.files = <<>> => o.ret = None
                /\ o.files # <<>> =>
                      /\ o.ret # None
                      /\ o.ret[1].type = "single_file"
                      /\ o.ret[1].files = o.files

\* C25: the entry point of every returned artifact is index.html when that is
\* a key of its files, else the first key in insertion order that ends in
\* .html, else the first key; so it is always a key of the files.
C25_EntryPoint ==
    (Extracted /\ fn_out[1].ret # None) =>
        LET files == fn_out[1].ret[1].files
            entry == fn_out[1].ret[1].entry_point
            htmls == {n \in 1..Len(files) : files[n].name.ext = "html"}
        IN /\ files # <<>>
           /\ files = fn_out[1].files
           /\ entry \in Keys(files)
           /\ entry = IF \E n \in 1..Len(files) : files[n].name = IndexHtml
                      THEN IndexHtml
                      ELSE IF htmls # {}
                      THEN files[CHOOSE n \in htmls : \A k \in htmls : n <= k].name
                      ELSE files[1].name

\* a stylesheet comes first and about.html, not index.html, is the entry point
C25_Witness ==
    /\ Extracted
    /\ fn_out[1].ret # None
    /\ fn_out[1].ret[1].type = "multi_file"
    /\ fn_out[1].ret[1].files[1].name = StylesCss
    /\ fn_out[1].ret[1].entry_point = AboutHtml

\* C26: two evaluations that differ in run, model or question have different
\* artifact ids.
C26_ArtifactIdsDistinct ==
    (fn_out # None /\ fn_in[1].f = "evaluate") =>
        (fn_in[1].a # fn_in[1].b => fn_out[1][1] # fn_out[1][2])

\* the part of a model identifier before its first "/", "unknown" without one
ProviderOf(model) ==
    LET slashes == {i \in 1..Len(model) : model[i] = "/"}
        first == CHOOSE i \in slashes : \A k \in slashes : i <= k
    IN IF slashes = {} THEN "unknown"
       ELSE IF first = 1 THEN ""
       ELSE model[first - 1]

\* C28: the gate size of a run is the override of the judge model's provider
\* when the override map has that provider, and the global default otherwise.
C28_GateSize ==
    (fn_out # None /\ fn_in[1].f = "run_job") =>
        LET c == fn_in[1]
        IN fn_out[1] = IF ProviderOf(c.judge_model) \in DOMAIN c.provider_concurrency
                       THEN c.provider_concurrency[ProviderOf(c.judge_model)]
                       ELSE c.max_concurrent

\* the override of openai applies to a model id with two separators
C28_Witness ==
    /\ fn_out # None
    /\ fn_in[1].f = "run_job"
    /\ fn_out[1] = 7
    /\ fn_in[1].judge_model = <<"openai", "/", "gpt", "/", "4">>
    /\ fn_in[1].max_concurrent = 1
    /\ DOMAIN fn_in[1].provider_concurrency = {"openai", "unknown"}
    /\ fn_in[1].provider_concurrency["unknown"] = 9

(***************************************************************************)
(* Permit accounting of the judge gate.                                    *)
(***************************************************************************)
\* C38: in every reachable state the permits held by the per-question
\* coroutines of a run plus the free permits of its semaphore equal the size
\* the semaphore was built with, and a run that has ended holds no permit
C38_PermitsConserved ==
    \A t \in TaskIds :
        /\ Cardinality(InFlight(t)) + tasks[t].value = tasks[t].gate
        /\ tasks[t].state = "done" => InFlight(t) = {}

\* a gate of one permit that is free again after one question returned its
\* result and another was cancelled
C38_Witness ==
    \E t \in TaskIds :
        /\ tasks[t].state = "gather"
        /\ tasks[t].gate = 1
        /\ tasks[t].value = 1
        /\ Len(tasks[t].children) = 2
        /\ tasks[t].children[1].res = "ok"
        /\ tasks[t].children[2].res = "cancelled"

(***************************************************************************)
(* Question files and the leaderboard of a run.                            *)
(***************************************************************************)
\* the question ids of run t whose evaluation has returned a result so far
EvaluatedSoFar(t) ==
    {jobs[tasks[t].job].question_ids[i] :
        i \in {n \in 1..Len(tasks[t].children) : tasks[t].children[n].res = "ok"}}

\* t is the only run job j ever had in this process
OnlyRun(t) == \A u \in TaskIds : tasks[u].job = tasks[t].job => u = t

\* C31: at every instant of the only run of a job, the question files in the
\* job's directory are exactly the questions whose evaluation has returned a
\* result so far: none for a skipped or failed question, none missing for an
\* evaluated one.
C31_FilesAreTheEvaluatedQuestions ==
    \A t \in TaskIds :
        (tasks[t].state = "gather" /\ OnlyRun(t)) =>
            QuestionFileNames(disk[tasks[t].job]) = EvaluatedSoFar(t)

\* the question files of a directory that hold a whole result
ReadableQuestionFiles(files) == {n \in QuestionFileNames(files) : files[n] # None}

\* the results read back from the question files named, one after another
RECURSIVE ResultsOf(_, _)
ResultsOf(files, names) ==
    IF names = {} THEN <<>>
    ELSE LET n == CHOOSE x \in names : TRUE
         IN <<[qid |-> files[n][1].question_id, results |-> files[n][1].results]>>
            \o ResultsOf(files, names \ {n})

\* the entries of a leaderboard, whatever their order
Entries(leaderboard) == {leaderboard[i] : i \in 1..Len(leaderboard)}

\* the step in which a run of job j returns with the job completed
Completes(j) ==
    /\ ret'.op = "step"
    /\ ret'.out = "returned"
    /\ ret'.job = j
    /\ ret'.val = None

\* C36: when a run completes a job, the leaderboard.json it leaves holds the
\* entries (model, total_questions, passed_count, average) of the leaderboard
\* computed from the question files that are in the job's directory then.
C36_LeaderboardMatchesFiles ==
    [][\A j \in JobIds :
          Completes(j) =>
              /\ HasLeaderboard(disk', j)
              /\ Entries(disk'[j]["leaderboard.json"][1]) =
                    Entries(_calculate_leaderboard(
                                ResultsOf(disk'[j], ReadableQuestionFiles(disk'[j]))))]_vars

(***************************************************************************)
(* Termination of a run.                                                   *)
(***************************************************************************)
\* a run of job j is under way
Started(j) ==
    /\ j \in DOMAIN jobs
    /\ \E t \in TaskIds : tasks[t].job = j /\ tasks[t].state = "gather"

\* no run of job j is left, or the job is gone with its process
Ended(j) ==
    \/ j \notin DOMAIN jobs
    \/ /\ jobs[j].status \in Terminal
       /\ \A t \in TaskIds : tasks[t].job = j => tasks[t].state = "done"

\* C37: under a fair event loop and judge calls that return or raise, every
\* job with a run under way reaches a terminal status with every run of it
\* ended, whatever size its gate was built with.
C37_EveryRunEnds ==
    \A j \in 1..2 : Started(j) ~> Ended(j)

(***************************************************************************)
(* The short ways out of evaluate and the executors.                       *)
(***************************************************************************)
\* the response evaluated carries an upstream error
HasError == ev_in[1].response.error # None

\* the response evaluated has no text, or the empty text
HasNoText ==
    \/ ev_in[1].response.response_text = None
    \/ ev_in[1].response.response_text = Some([prose |-> {}, blocks |-> <<>>])

\* evaluation e scored nothing and touched neither directory nor interpreter
ShortCircuited(e, reasoning) ==
    /\ e.exc = None
    /\ e.score = 0
    /\ ~e.passed
    /\ e.reasoning = reasoning
    /\ ~e.subprocess
    /\ e.temp_dir = None
    /\ e.artifact_dir = None

\* C32: a response with an upstream error, or with empty text, is scored 0
\* and not passed without extraction, directory or subprocess; the reasoning
\* names the error in the first case (also when the text is empty as well)
\* and the empty text in the second.
C32_ErrorAndEmptyShortCircuit ==
    \A n \in 1..Len(ev_out) :
        /\ HasError =>
              /\ ShortCircuited(ev_out[n], <<"Response failed with error: ",
                                             ev_in[1].response.error[1]>>)
              /\ ev_fs = EmptyFs
        /\ (~HasError /\ HasNoText) =>
              /\ ShortCircuited(ev_out[n], <<"Response text is empty or None">>)
              /\ ev_fs = EmptyFs

\* a response with an upstream error and no text has been evaluated
C32_Witness ==
    /\ ev_in # None
    /\ Len(ev_out) >= 1
    /\ HasError
    /\ ev_in[1].response.response_text = None

\* a response with the empty text and no error has been evaluated
C32_WitnessEmpty ==
    /\ ev_in # None
    /\ Len(ev_out) >= 1
    /\ ~HasError
    /\ ev_in[1].response.response_text = Some([prose |-> {}, blocks |-> <<>>])

\* the text evaluated is one the extractor returns a multi-file artifact for
MultiFileResponse ==
    /\ ~HasError
    /\ ~HasNoText
    /\ is_multi_file(_extract_files_from_response(ev_in[1].response.response_text[1]))

\* C33: a response the extractor classifies as multi-file is scored on its
\* structure alone: evaluate starts no interpreter and makes no execution
\* temp directory for it, also when a code block of it could be run.
C33_MultiFileIsStructuralOnly ==
    \A n \in 1..Len(ev_out) :
        MultiFileResponse =>
            /\ ~ev_out[n].subprocess
            /\ ev_out[n].temp_dir = None
            /\ ev_fs.temps = EmptyMap
            /\ ev_out[n].exc = None =>
                   ev_out[n].evaluation_type = "code_execution_multi_file"

\* a multi-file response whose first code block is Python has been scored
C33_Witness ==
    /\ ev_in # None
    /\ Len(ev_out) >= 1
    /\ MultiFileResponse
    /\ _extract_code(ev_in[1].response.response_text[1]).found
    /\ _extract_code(ev_in[1].response.response_text[1]).language = "python"
    /\ ev_out[1].exc = None
    /\ ev_out[1].evaluation_type = "code_execution_multi_file"

\* an executor has returned
Executed == fn_out # None /\ fn_in[1].f \in {"_execute_python", "_execute_javascript"}

\* C34: an executor reports success exactly when the interpreter ran and
\* exited with code zero; a nonzero exit, a timeout and a missing interpreter
\* each give success false with a message that is not empty; and only a
\* timeout gives the timeout message.
C34_ExecutorOutcomes ==
    Executed =>
        LET r == fn_out[1]
            env == fn_in[1].env
        IN /\ r.success => env.proc = "exit0"
           /\ (env.proc = "exit0" /\ env.write = "ok") => r.success
           /\ env.proc # "exit0" => (~r.success /\ r.error # "")
           /\ r.error = "Execution timed out" => env.proc = "timeout"

(***************************************************************************)
(* Cancellation of a benchmark run through the web wrapper.                *)
(***************************************************************************)
\* C35: once cancellation has been requested, no call of the generation or
\* evaluation wrapper starts its work.
C35_NoUnitStartsAfterCancel ==
    [][\A u \in 1..Len(units) :
          (/\ u \in 1..Len(units')
           /\ units[u].pc = "new"
           /\ units'[u].pc = "working") => ~cancel_event]_vars

\* C39: a run that has ended is cancelled only if cancellation was
\* requested; when it ended by an exception without a request it is failed,
\* whatever the message; and when it ended by the exception the wrappers
\* raise on seeing the flag it is cancelled.
C39_CancelledOnlyOnRequest ==
    runner_thread.pc = "ended" =>
        /\ current_job[1].status = "cancelled" => cancel_event
        /\ (runner_thread.exc # None /\ ~cancel_event) =>
              current_job[1].status = "failed"
        /\ (runner_thread.exc = Some(CancelledByUser) /\ cancel_event) =>
              current_job[1].status = "cancelled"

(***************************************************************************)
(* The sequential and the concurrent runner on the same job.               *)
(***************************************************************************)
\* both runners have run the job
BothRan == fn_out.seq # None /\ fn_out.conc # None

====
